---- MODULE Spec2Model ----
(***************************************************************************)
(* State-machine model of the centrix CI server (ci_server): webhook       *)
(* intake, manual trigger, the executor loop (scheduler + per-build        *)
(* executor) and the error classifier.                                     *)
(*                                                                         *)
(* The relational tables are sequences of rows, a row's id being its       *)
(* position.  Option<T> is modelled as a sequence: <<>> is None, <<v>> is  *)
(* Some(v).  Wall-clock time is the counter now.                           *)
(***************************************************************************)
EXTENDS Integers, Sequences, FiniteSets, TLC

VARIABLES
    config,      \* CiConfig, immutable after startup
    now,         \* wall clock
    ci_builds,   \* table ci_builds
    ci_build_steps, \* table ci_build_steps
    sched,       \* per executor-loop instance: position and locals of poll_and_execute
    last,        \* the last HTTP request handled and its reply
    workspaces,  \* the directories under workspace_dir and the deletions asked for
    intake,      \* per HTTP task: position and locals of a webhook being handled
    aggregate,   \* a CiBuildAggregate and the events applied to it
    ci_errors,   \* table ci_errors
    ci_error_occurrences, \* table ci_error_occurrences
    rec          \* per record_error caller: position and locals

vars == <<config, now, ci_builds, ci_build_steps, sched, last, workspaces,
          intake, aggregate, ci_errors, ci_error_occurrences, rec>>

coreVars == <<config, now, ci_builds, ci_build_steps, sched, last, workspaces,
              intake, aggregate>>
errVars  == <<ci_errors, ci_error_occurrences, rec>>

---------------------------------------------------------------------------
(* Bounds of the model *)

MaxBuilds == 2          \* rows in ci_builds
MaxTime == 1            \* clock ticks
MaxBuildsTwo == 1       \* rows in ci_builds while two executor loops run
MaxConcurrent == 2      \* largest CI_MAX_CONCURRENT tried
MaxCalls == 3           \* record_error calls
MaxMillis == 2          \* clock ticks while one build is timed, in milliseconds
MaxHead == 2            \* characters in front of the padding of a process output
MaxLen == 4             \* characters of a text given to normalize
MaxWords == 2           \* pieces of a text given to classify_category
MaxEvents == 3          \* events applied to a CiBuildAggregate
throttle_window_secs == 1   \* CI_THROTTLE_WINDOW, in clock ticks

(* Program constants *)

TitleMax == 200         \* bytes of raw text kept as the title of an Error

---------------------------------------------------------------------------
(* Option<T> *)

None == <<>>
Some(v) == <<v>>
is_some(o) == o # <<>>
unwrap(o) == o[1]
unwrap_or(o, d) == IF o = <<>> THEN d ELSE o[1]

\* the largest element: an ORDER BY descending instead of ascending
Max(S) == CHOOSE x \in S : \A y \in S : x >= y

Min(S) == CHOOSE x \in S : \A y \in S : x <= y

---------------------------------------------------------------------------
(* ci_projects: seeded rows, never modified by the modelled core *)

\* serde_json values tried for timeout_secs: a number, a string
JsonNumber(n) == [kind |-> "number", n |-> n]
JsonString == [kind |-> "string", n |-> 0]

ci_projects == <<
    [id |-> 1, tenant_id |-> "t1", github_repo |-> "acme/app",
     default_branch |-> "main", active |-> TRUE,
     pipeline_config |-> Some([
        steps |-> Some(<< Some([name |-> "a", command |-> "cmd-a"]),
                          Some([name |-> "b", command |-> "cmd-b"]) >>),
        timeout_secs |-> Some(JsonNumber(5)),
        local_path |-> Some("/srv/app")])],
    [id |-> 2, tenant_id |-> "t2", github_repo |-> "acme/lib",
     default_branch |-> "main", active |-> FALSE,
     pipeline_config |-> None],
    [id |-> 3, tenant_id |-> "t1", github_repo |-> "acme/web",
     default_branch |-> "main", active |-> TRUE,
     pipeline_config |-> None],
    [id |-> 4, tenant_id |-> "t1", github_repo |-> "acme/docs",
     default_branch |-> "main", active |-> TRUE,
     pipeline_config |-> Some([
        steps |-> None,
        timeout_secs |-> None,
        local_path |-> None])],
    [id |-> 5, tenant_id |-> "t1", github_repo |-> "acme/cli",
     default_branch |-> "main", active |-> TRUE,
     pipeline_config |-> Some([
        steps |-> Some(<< Some([name |-> "a", command |-> "cmd-a"]) >>),
        timeout_secs |-> Some(JsonNumber(-5)),
        local_path |-> Some("/srv/cli")])],
    [id |-> 6, tenant_id |-> "t1", github_repo |-> "acme/api",
     default_branch |-> "main", active |-> TRUE,
     pipeline_config |-> Some([
        steps |-> Some(<< Some([name |-> "a", command |-> "cmd-a"]) >>),
        timeout_secs |-> Some(JsonString),
        local_path |-> Some("/srv/api")])]
>>

ProjectIds == 1..Len(ci_projects)

\* project_service::find_by_repo: exact repo match plus active = true
find_by_repo(github_repo) ==
    LET hit == {p \in ProjectIds :
                   /\ ci_projects[p].github_repo = github_repo
                   /\ ci_projects[p].active}
    IN IF hit = {} THEN None ELSE Some(ci_projects[Min(hit)])

---------------------------------------------------------------------------
(* Pipeline configuration *)

DefaultTimeout == 600

\* serde_json::Value::as_u64
as_u64(v) == IF v.kind = "number" /\ v.n >= 0 THEN Some(v.n) ELSE None

\* parse_pipeline that gives no step to a project without configuration
parse_pipeline_no_default(cfg) ==
    IF cfg = None
    THEN [steps |-> <<>>, timeout_secs |-> DefaultTimeout, local_path |-> None]
    ELSE LET c == unwrap(cfg)
             arr == unwrap_or(c.steps, <<>>)
             good == SelectSeq(arr, LAMBDA s : is_some(s))
         IN [steps |-> [k \in 1..Len(good) |-> unwrap(good[k])],
             timeout_secs |-> DefaultTimeout,
             local_path |-> c.local_path]

\* executor::parse_pipeline
parse_pipeline(cfg) ==
    IF cfg = None
    THEN [steps |-> << [name |-> "check", command |-> "echo 'No pipeline configured'"] >>,
          timeout_secs |-> DefaultTimeout,
          local_path |-> None]
    ELSE LET c == unwrap(cfg)
             arr == unwrap_or(c.steps, <<>>)
             good == SelectSeq(arr, LAMBDA s : is_some(s))
         IN [steps |-> [k \in 1..Len(good) |-> unwrap(good[k])],
             timeout_secs |-> IF c.timeout_secs = None THEN DefaultTimeout
                              ELSE unwrap_or(as_u64(unwrap(c.timeout_secs)),
                                             DefaultTimeout),
             local_path |-> c.local_path]

---------------------------------------------------------------------------
(* Store operations on ci_builds *)

\* build_service::create_build: the row as materialised by the INSERT; the
\* columns NewCiBuild does not carry take the defaults of MIGRATION_SQL
create_build(builds, new_build, t) ==
    Append(builds,
           [id |-> Len(builds) + 1,
            tenant_id |-> new_build.tenant_id,
            project_id |-> new_build.project_id,
            commit_sha |-> new_build.commit_sha,
            branch |-> new_build.branch,
            pr_number |-> new_build.pr_number,
            author |-> new_build.author,
            fingerprint |-> new_build.fingerprint,
            trigger_event |-> new_build.trigger_event,
            status |-> new_build.status,
            started_at |-> None,
            finished_at |-> None,
            duration_ms |-> None,
            summary |-> None,
            create_date |-> t])

\* a duplicate check that never finds a build
is_duplicate_never(builds, fingerprint, throttle_secs, t) == FALSE

\* build_service::is_duplicate: a row with that fingerprint newer than the cutoff
is_duplicate(builds, fingerprint, throttle_secs, t) ==
    LET cutoff == t - throttle_secs
        count == Cardinality({b \in 1..Len(builds) :
                                 /\ builds[b].fingerprint = fingerprint
                                 /\ builds[b].create_date > cutoff})
    IN count > 0

---------------------------------------------------------------------------
(* Forge client: signature verification *)

\* HMAC-SHA256 of the payload under the key, as an opaque tag that is
\* different for different (key, payload)
HmacSha256(key, payload) == <<key, payload>>

\* A signature header is [prefixed, digits]: whether it starts with "sha256=",
\* and what follows: <<"hex", bytes>> for hex digits decoding to bytes,
\* <<"text">> for something hex::decode rejects.  The absent header is the
\* empty string: no prefix, zero hex digits.
EmptyHeader == [prefixed |-> FALSE, digits |-> <<"hex", <<>>>>]

\* validate_signature letting a header that is not hex through
validate_signature_lenient(secret, payload, signature) ==
    IF secret = ""
    THEN TRUE
    ELSE LET sig == signature.digits
         IN IF sig[1] # "hex"
            THEN TRUE
            ELSE sig[2] = HmacSha256(secret, payload)

\* validate_signature that checks the header against the empty secret too
validate_signature_no_skip(secret, payload, signature) ==
    LET sig == signature.digits
    IN IF sig[1] # "hex"
       THEN FALSE
       ELSE sig[2] = HmacSha256(secret, payload)

\* github_service::validate_signature
validate_signature(secret, payload, signature) ==
    IF secret = ""
    THEN TRUE
    ELSE LET sig == signature.digits          \* strip_prefix(..).unwrap_or(signature)
         IN IF sig[1] # "hex"
            THEN FALSE                         \* hex::decode failed
            ELSE sig[2] = HmacSha256(secret, payload)   \* mac.verify_slice

---------------------------------------------------------------------------
(* Forge client: commit status *)

\* what can go wrong with the POST of a commit status: an error reply of the
\* forge, no reply at all
CallbackFaults == {"status_http", "status_transport"}

\* post_status that sends the request again after a failure
post_status_retrying(token, fault) ==
    IF token = "" THEN [requests |-> 0, result |-> "Ok"]
    ELSE IF fault \in CallbackFaults THEN [requests |-> 2, result |-> "Err"]
    ELSE [requests |-> 1, result |-> "Ok"]

\* github_service::post_status: the requests sent and the Result returned
post_status(token, fault) ==
    IF token = "" THEN [requests |-> 0, result |-> "Ok"]
    ELSE IF fault = "status_transport" THEN [requests |-> 1, result |-> "Err"]  \* send().await?
    ELSE [requests |-> 1, result |-> "Ok"]      \* an error reply is logged

---------------------------------------------------------------------------
(* Webhook intake *)

Faults == {"none", "pool", "find", "dup", "insert"}

\* the dedup fingerprint of a push (webhook.rs, handle_push)
push_fingerprint(commit_sha, branch) == commit_sha \o "-" \o branch \o "-push"

\* pr_fingerprint built with the push suffix
pr_fingerprint_as_push(commit_sha, branch, pr_number) ==
    commit_sha \o "-" \o branch \o "-push"

\* the dedup fingerprint of a pull request (webhook.rs, handle_pull_request)
pr_fingerprint(commit_sha, branch, pr_number) ==
    commit_sha \o "-" \o branch \o "-pr" \o ToString(pr_number)

\* routes::webhook::handle_push; the result is the reply code, the row to
\* insert, if any, and the number of status requests sent to the forge.
\* fault names the operation that fails, if any.
handle_push(cfg, builds, t, payload, fault) ==
    LET repo_full_name == payload.full_name
        commit_sha == payload.after
        branch == IF payload.ref[1] = "refs/heads/" THEN payload.ref[2] ELSE ""
        author == payload.pusher
        project == find_by_repo(repo_full_name)
        fingerprint == push_fingerprint(commit_sha, branch)
        dup == IF fault = "dup" THEN FALSE      \* .unwrap_or(false)
               ELSE is_duplicate(builds, fingerprint, cfg.throttle_window_secs, t)
    IN IF commit_sha = "" \/ branch = "" THEN [code |-> 200, new |-> None, posts |-> 0]
       ELSE IF fault = "pool" THEN [code |-> 500, new |-> None, posts |-> 0]
       ELSE IF fault = "find" THEN [code |-> 500, new |-> None, posts |-> 0]
       ELSE IF project = None THEN [code |-> 200, new |-> None, posts |-> 0]
       ELSE IF dup THEN [code |-> 200, new |-> None, posts |-> 0]
       ELSE IF fault = "insert" THEN [code |-> 500, new |-> None, posts |-> 0]
       ELSE [code |-> 201,
             new |-> Some([tenant_id |-> unwrap(project).tenant_id,
                           project_id |-> unwrap(project).id,
                           commit_sha |-> commit_sha,
                           branch |-> branch,
                           pr_number |-> None,
                           author |-> Some(author),
                           fingerprint |-> fingerprint,
                           trigger_event |-> "push",
                           status |-> "pending"]),
             posts |-> post_status(cfg.github_token, fault).requests]   \* let _ =

\* routes::webhook::handle_pull_request
handle_pull_request(cfg, builds, t, payload, fault) ==
    LET action == payload.action
        repo_full_name == payload.full_name
        pr_number == payload.number        \* as_i64().unwrap_or(0) as i32, in range
        commit_sha == payload.head_sha
        branch == payload.head_ref
        author == payload.user
        project == find_by_repo(repo_full_name)
        fingerprint == pr_fingerprint(commit_sha, branch, pr_number)
        dup == IF fault = "dup" THEN FALSE      \* .unwrap_or(false)
               ELSE is_duplicate(builds, fingerprint, cfg.throttle_window_secs, t)
    IN IF action \notin {"opened", "synchronize", "reopened"}
          THEN [code |-> 200, new |-> None, posts |-> 0]
       ELSE IF commit_sha = "" \/ branch = "" THEN [code |-> 200, new |-> None, posts |-> 0]
       ELSE IF fault = "pool" THEN [code |-> 500, new |-> None, posts |-> 0]
       ELSE IF fault = "find" THEN [code |-> 500, new |-> None, posts |-> 0]
       ELSE IF project = None THEN [code |-> 200, new |-> None, posts |-> 0]
       ELSE IF dup THEN [code |-> 200, new |-> None, posts |-> 0]
       ELSE IF fault = "insert" THEN [code |-> 500, new |-> None, posts |-> 0]
       ELSE [code |-> 201,
             new |-> Some([tenant_id |-> unwrap(project).tenant_id,
                           project_id |-> unwrap(project).id,
                           commit_sha |-> commit_sha,
                           branch |-> branch,
                           pr_number |-> Some(pr_number),
                           author |-> Some(author),
                           fingerprint |-> fingerprint,
                           trigger_event |-> "pull_request",
                           status |-> "pending"]),
             posts |-> post_status(cfg.github_token, fault).requests]   \* let _ =

\* routes::webhook::handle_webhook
handle_webhook(cfg, builds, t, event_type, signature, body, fault) ==
    IF ~validate_signature(cfg.github_webhook_secret, body, signature)
       THEN [code |-> 401, new |-> None, posts |-> 0]
    ELSE IF ~body.json THEN [code |-> 400, new |-> None, posts |-> 0]
    ELSE IF event_type = "push" THEN handle_push(cfg, builds, t, body, fault)
    ELSE IF event_type = "pull_request"
       THEN handle_pull_request(cfg, builds, t, body, fault)
    ELSE [code |-> 200, new |-> None, posts |-> 0]

---------------------------------------------------------------------------
(* Requests the environment can send *)

Events == {"push", "pull_request", "ping", "issues"}

\* A request body: json says whether it parses; the other fields are the JSON
\* members read by the handlers ("" and 0 where a member is absent)
Body(json, repo, after, ref, action, number, head_sha, head_ref) ==
    [json |-> json, full_name |-> repo, after |-> after, ref |-> ref,
     pusher |-> "alice", action |-> action, number |-> number,
     head_sha |-> head_sha, head_ref |-> head_ref, user |-> "bob"]

NoRef == <<"", "">>
Push(repo) == Body(TRUE, repo, "c0ffee", <<"refs/heads/", "main">>, "", 0, "", "")
PullRequest(repo, action) == Body(TRUE, repo, "", NoRef, action, 7, "c0ffee", "main")
NotJson == Body(FALSE, "", "", NoRef, "", 0, "", "")

Bodies ==
    {NotJson} \cup
    {Push(r) : r \in {"acme/app", "acme/lib", "acme/web", "ghost/none"}} \cup
    {Body(TRUE, "acme/app", "c0ffee", <<"refs/tags/", "v1">>, "", 0, "", ""),
     Body(TRUE, "acme/app", "", <<"refs/heads/", "main">>, "", 0, "", ""),
     PullRequest("acme/app", "opened"),
     PullRequest("acme/app", "closed"),
     Body(TRUE, "acme/app", "", NoRef, "opened", 7, "", "main")}

\* The HMAC of the body under the key, as GitHub sends it
Signed(key, body) == [prefixed |-> TRUE, digits |-> <<"hex", HmacSha256(key, body)>>]

\* The signature headers tried with a body: absent, not hex, the HMAC under
\* the right key with and without the prefix, the HMAC under another key
Signatures(body) ==
    {EmptyHeader,
     [prefixed |-> TRUE, digits |-> <<"text">>],
     Signed("s", body),
     [prefixed |-> FALSE, digits |-> <<"hex", HmacSha256("s", body)>>],
     Signed("x", body)}

Delivery(event_type, signature, body, fault) ==
    [event_type |-> event_type, signature |-> signature, body |-> body, fault |-> fault]

\* Deliveries that differ in their signature header: each header, and the
\* HMAC of another body, on a JSON and a non-JSON body, for two events
SignatureDeliveries ==
    {Delivery(e, sg, b, "none") :
        e \in {"push", "ping"}, b \in {NotJson, Push("acme/app")},
        sg \in Signatures(Push("acme/app")) \cup {Signed("s", NotJson)}}

\* Deliveries signed with the secret "s": every body as a push and as a
\* pull_request, two other events
EventDeliveries ==
    {Delivery(e, Signed("s", b), b, "none") :
        e \in {"push", "pull_request"}, b \in Bodies} \cup
    {Delivery(e, Signed("s", b), b, "none") :
        e \in {"ping", "issues"}, b \in {NotJson, Push("acme/app")}}

\* Deliveries during which one Store operation fails
FaultDeliveries ==
    {Delivery("push", Signed("s", Push("acme/app")), Push("acme/app"), f) :
        f \in Faults} \cup
    {Delivery("pull_request", Signed("s", PullRequest("acme/app", "opened")),
              PullRequest("acme/app", "opened"), f) : f \in Faults}

\* The deliveries tried against Webhook Intake
Deliveries == SignatureDeliveries \cup EventDeliveries \cup FaultDeliveries

\* The deliveries tried while the executor loop is modelled
CoreDeliveries ==
    {Delivery("push", Signed("s", Push("acme/web")), Push("acme/web"), "none")}

---------------------------------------------------------------------------
(* Manual trigger *)

\* trigger_build that records the build as a push
trigger_build_as_push(req, fault) ==
    LET found == req.project_id \in ProjectIds
        project == ci_projects[req.project_id]
        branch == unwrap_or(req.branch, project.default_branch)
        commit_sha == unwrap_or(req.commit_sha, "HEAD")
    IN IF fault = "pool" THEN [code |-> 500, new |-> None]
       ELSE IF fault = "find" \/ ~found THEN [code |-> 400, new |-> None]
       ELSE IF fault = "insert" THEN [code |-> 400, new |-> None]
       ELSE [code |-> 201,
             new |-> Some([tenant_id |-> project.tenant_id,
                           project_id |-> project.id,
                           commit_sha |-> commit_sha,
                           branch |-> branch,
                           pr_number |-> None,
                           author |-> Some("manual"),
                           fingerprint |-> push_fingerprint(commit_sha, branch),
                           trigger_event |-> "push",
                           status |-> "pending"])]

\* routes::trigger_build_handler with routes::api::trigger_build: the reply
\* code and the row to insert, if any
\* trigger_build that answers 200 for a fingerprint seen within the window
trigger_build_throttled(req, fault) ==
    LET found == req.project_id \in ProjectIds
        project == ci_projects[req.project_id]
        branch == unwrap_or(req.branch, project.default_branch)
        commit_sha == unwrap_or(req.commit_sha, "HEAD")
        fingerprint == commit_sha \o "-" \o branch \o "-manual"
    IN IF fault = "pool" THEN [code |-> 500, new |-> None]
       ELSE IF fault = "find" \/ ~found THEN [code |-> 400, new |-> None]
       ELSE IF is_duplicate(ci_builds, fingerprint, config.throttle_window_secs, now)
       THEN [code |-> 200, new |-> None]
       ELSE IF fault = "insert" THEN [code |-> 400, new |-> None]
       ELSE [code |-> 201,
             new |-> Some([tenant_id |-> project.tenant_id,
                           project_id |-> project.id,
                           commit_sha |-> commit_sha,
                           branch |-> branch,
                           pr_number |-> None,
                           author |-> Some("manual"),
                           fingerprint |-> fingerprint,
                           trigger_event |-> "manual",
                           status |-> "pending"])]

trigger_build(req, fault) ==
    LET found == req.project_id \in ProjectIds     \* ci_projects.find(id)
        project == ci_projects[req.project_id]
        branch == unwrap_or(req.branch, project.default_branch)
        commit_sha == unwrap_or(req.commit_sha, "HEAD")
        fingerprint == commit_sha \o "-" \o branch \o "-manual"
    IN IF fault = "pool" THEN [code |-> 500, new |-> None]
       ELSE IF fault = "find" \/ ~found THEN [code |-> 400, new |-> None]
       ELSE IF fault = "insert" THEN [code |-> 400, new |-> None]
       ELSE [code |-> 201,
             new |-> Some([tenant_id |-> project.tenant_id,
                           project_id |-> project.id,
                           commit_sha |-> commit_sha,
                           branch |-> branch,
                           pr_number |-> None,
                           author |-> Some("manual"),
                           fingerprint |-> fingerprint,
                           trigger_event |-> "manual",
                           status |-> "pending"])]

TriggerRequest(p, b, c) == [project_id |-> p, branch |-> b, commit_sha |-> c]

TriggerRequests ==
    {TriggerRequest(p, None, None) : p \in {1, 2, 9}} \cup
    {TriggerRequest(1, Some("main"), Some("c0ffee"))}

TriggerFaults == {"none", "pool", "find", "insert"}

\* The requests tried against the manual trigger, each with the Store fault
\* that strikes it
Triggers == TriggerRequests \X TriggerFaults

\* The requests tried while the executor loop is modelled
CoreTriggers == {<<TriggerRequest(1, None, None), "none">>}

\* the same, and one for a project the executor clones into a workspace
CloneTriggers ==
    CoreTriggers \cup {<<TriggerRequest(3, None, None), "none">>}

---------------------------------------------------------------------------
(* Store operations on ci_build_steps *)

\* step_executor::start_step
start_step(steps, build_id, step_name, sequence, tenant_id) ==
    Append(steps,
           [id |-> Len(steps) + 1,
            tenant_id |-> tenant_id,
            build_id |-> build_id,
            name |-> step_name,
            sequence |-> sequence,
            status |-> "running",
            exit_code |-> None,
            duration_ms |-> None,
            stdout |-> None,
            stderr |-> None])

\* step_executor::complete_step
complete_step(steps, step_id, exit_code, duration_ms, stdout, stderr, t) ==
    LET status == IF exit_code = 0 THEN "success" ELSE "failure"
    IN [steps EXCEPT ![step_id] =
            [@ EXCEPT !.status = status,
                      !.exit_code = Some(exit_code),
                      !.duration_ms = Some(duration_ms),
                      !.stdout = stdout,
                      !.stderr = stderr]]   \* finished_at = t is not kept

\* finish_build that puts a failed build back in the queue
finish_build_requeue(builds, build_id, status, start, error_msg, t) ==
    [builds EXCEPT ![build_id] =
        [@ EXCEPT !.status = IF status = "failure" THEN "pending" ELSE status,
                  !.finished_at = Some(t),
                  !.duration_ms = Some(t - start)]]

\* executor::finish_build
finish_build(builds, build_id, status, start, error_msg, t) ==
    LET duration == t - start
        summary == IF error_msg = None THEN None
                   ELSE Some([error |-> unwrap(error_msg)])
    IN [builds EXCEPT ![build_id] =
            [@ EXCEPT !.status = status,
                      !.finished_at = Some(t),
                      !.duration_ms = Some(duration),
                      !.summary = summary]]

---------------------------------------------------------------------------
(* What running a step's command can come to (executor.rs, cmd_result) *)

StepOutcomes ==
    {[kind |-> "exit", code |-> Some(0)],     \* Ok(Ok(output)), status 0
     [kind |-> "exit", code |-> Some(1)],     \* Ok(Ok(output)), status 1
     [kind |-> "launch", code |-> None],      \* Ok(Err(e))
     [kind |-> "timeout", code |-> None]}     \* Err(_)

\* the match on cmd_result: <<exit_code, stdout, stderr>>
step_result(outcome, timeout_secs) ==
    IF outcome.kind = "exit"
    THEN <<unwrap_or(outcome.code, -1), "out", "err">>
    ELSE IF outcome.kind = "launch"
    THEN <<-1, "", "Failed to execute command: ENOENT">>
    ELSE <<-1, "", "Step timed out after " \o ToString(timeout_secs) \o "s">>

---------------------------------------------------------------------------
(* Captured process output (executor.rs, the Ok(Ok(output)) arm).  A text   *)
(* is a sequence of runs [c, n]: n repetitions of the unit c.  The units    *)
(* are an ASCII byte, the two-byte character e-acute (0xC3 0xA9), its       *)
(* second byte alone, a byte 0xFF that is not UTF-8, and the three-byte     *)
(* replacement character U+FFFD.                                            *)

TruncateLimit == 65536

Width(c) == IF c = "e-acute" THEN 2 ELSE IF c = "U+FFFD" THEN 3 ELSE 1

RunOf(c, n) == [c |-> c, n |-> n]

\* the prefix written in front of a truncated output
Marker == RunOf("...truncated...\n", 1)

\* str::len: the length in bytes
RECURSIVE len(_)
len(text) ==
    IF text = <<>> THEN 0
    ELSE Head(text).n * Width(Head(text).c) + len(Tail(text))

\* String::from_utf8_lossy: every byte that is not part of a UTF-8 sequence
\* becomes U+FFFD
from_utf8_lossy(bytes) ==
    [k \in 1..Len(bytes) |->
        IF bytes[k].c \in {"0xFF", "0xA9"}
        THEN RunOf("U+FFFD", bytes[k].n) ELSE bytes[k]]

\* str::is_char_boundary: byte offset index is the start of a character or
\* the end of the text
RECURSIVE is_char_boundary(_, _)
is_char_boundary(text, index) ==
    IF index = 0 THEN TRUE
    ELSE IF text = <<>> THEN FALSE
    ELSE LET w == Width(Head(text).c)
             total == Head(text).n * w
         IN IF index >= total
            THEN is_char_boundary(Tail(text), index - total)
            ELSE index % w = 0

\* &text[index..] for an index on a character boundary
RECURSIVE slice_from(_, _)
slice_from(text, index) ==
    IF index = 0 \/ text = <<>> THEN text
    ELSE LET w == Width(Head(text).c)
             total == Head(text).n * w
         IN IF index >= total
            THEN slice_from(Tail(text), index - total)
            ELSE <<RunOf(Head(text).c, Head(text).n - (index \div w))>> \o Tail(text)

\* lines 194-205: "Truncate to 64KB per field".  Slicing a str at a byte
\* offset inside a character panics.
truncate(text) ==
    IF len(text) > TruncateLimit
    THEN LET index == len(text) - TruncateLimit
         IN IF is_char_boundary(text, index)
            THEN [panic |-> FALSE, text |-> <<Marker>> \o slice_from(text, index)]
            ELSE [panic |-> TRUE, text |-> <<>>]
    ELSE [panic |-> FALSE, text |-> text]

\* what the child process wrote and how it exited
NoOutput == [code |-> 0, stdout |-> <<>>, stderr |-> <<>>]

\* texts of up to MaxHead units followed by ASCII padding, of lengths around
\* TruncateLimit
RECURSIVE Heads(_)
Heads(k) ==
    IF k = 0 THEN {<<>>}
    ELSE Heads(k - 1) \cup
         {<<RunOf(c, 1)>> \o h : c \in {"a", "e-acute", "0xFF"},
                                 h \in {x \in Heads(k - 1) : Len(x) = k - 1}}

OutputTexts ==
    {h \o <<RunOf("a", n)>> :
        h \in Heads(MaxHead), n \in (TruncateLimit - 3)..(TruncateLimit + 1)}

\* the outputs a step's command can produce: one stream long, the other empty
ProcessOutputs ==
    {[code |-> e, stdout |-> t, stderr |-> <<>>] : e \in {0, 1}, t \in OutputTexts}
    \cup
    {[code |-> e, stdout |-> <<>>, stderr |-> t] : e \in {0, 1}, t \in OutputTexts}

---------------------------------------------------------------------------
(* The executor loop: run_executor / poll_and_execute, one DB round trip   *)
(* or one awaited operation per action                                     *)

Instances == {1, 2}

Idle == [pc |-> "idle", build |-> 0, seq |-> 0, all_passed |-> TRUE,
         build_start |-> 0, step_id |-> 0, step_start |-> 0,
         final |-> "", error_msg |-> None, output |-> NoOutput,
         cmd_result |-> ""]

running_count(builds) ==
    Cardinality({b \in 1..Len(builds) : builds[b].status = "running"})

\* at_capacity with the comparison off by one
at_capacity_strict(count, cap) == count > cap

\* the cap test of poll_and_execute
at_capacity(count, cap) == count >= cap

\* the candidates of the pending query (inner join with ci_projects)
pending_ids(builds) ==
    {b \in 1..Len(builds) :
        /\ builds[b].status = "pending"
        /\ builds[b].project_id \in ProjectIds}

pipeline_of(build_id) ==
    parse_pipeline(ci_projects[ci_builds[build_id].project_id].pipeline_config)

\* where the step loop goes from 0-based position seq of n steps
loop_pc(seq, n) == IF seq < n THEN "step" ELSE "finish"

final_status(all_passed) == IF all_passed THEN "success" ELSE "failure"

\* any `?` in poll_and_execute: the tick ends, the loop sleeps and polls again
Abort(i) == sched' = [sched EXCEPT ![i] = Idle]

\* lines 37-48: count the running builds, go on when below the cap
PollCount(i) ==
    /\ sched[i].pc = "idle"
    /\ ~at_capacity(running_count(ci_builds), config.max_concurrent_builds)
    /\ sched' = [sched EXCEPT ![i].pc = "select"]
    /\ UNCHANGED <<errVars, aggregate, intake, workspaces, config, now, ci_builds, ci_build_steps, last>>

\* lines 50-70: pick the oldest pending build
PollSelect(i) ==
    /\ sched[i].pc = "select"
    /\ \/ Abort(i)                                    \* query failed, or none pending
       \/ /\ pending_ids(ci_builds) # {}
          /\ sched' = [sched EXCEPT ![i].pc = "mark",
                                    ![i].build = Min(pending_ids(ci_builds))]
    /\ UNCHANGED <<errVars, aggregate, intake, workspaces, config, now, ci_builds, ci_build_steps, last>>

\* the UPDATE of lines 80-86
mark_running(builds, build_id, t) ==
    [builds EXCEPT ![build_id] =
        [@ EXCEPT !.status = "running", !.started_at = Some(t)]]

\* lines 79-88
MarkRunning(i) ==
    /\ sched[i].pc = "mark"
    /\ \/ Abort(i) /\ UNCHANGED ci_builds
       \/ /\ ci_builds' = mark_running(ci_builds, sched[i].build, now)
          /\ sched' = [sched EXCEPT ![i].pc = "workspace"]
    /\ UNCHANGED <<errVars, aggregate, intake, workspaces, config, now, ci_build_steps, last>>

\* the workspace directory of a build, named by the id of the build
NoWorkspaces == [dirs |-> {}, removed |-> {}]

\* tokio::fs::create_dir_all of {workspace_dir}/{build_id}
create_dir_all(fs, build_id) == [fs EXCEPT !.dirs = @ \cup {build_id}]

\* tokio::fs::remove_dir_all of {workspace_dir}/{build_id}: the call is
\* recorded, the directory is gone when the call succeeded
remove_dir_all(fs, build_id, ok) ==
    [dirs |-> IF ok THEN fs.dirs \ {build_id} ELSE fs.dirs,
     removed |-> fs.removed \cup {build_id}]

\* lines 90-156: parse the pipeline, acquire the working directory
Workspace(i) ==
    LET pipeline == pipeline_of(sched[i].build)
        n == Len(pipeline.steps)
        go == [sched EXCEPT ![i].pc = loop_pc(0, n),
                            ![i].build_start = now,
                            ![i].final = final_status(TRUE)]
    IN /\ sched[i].pc = "workspace"
       /\ IF is_some(pipeline.local_path)
          THEN sched' = go /\ UNCHANGED workspaces     \* git pull, failure ignored
          ELSE \/ Abort(i) /\ UNCHANGED workspaces     \* create_dir_all failed
               \/ /\ workspaces' = create_dir_all(workspaces, sched[i].build)
                  /\ \/ \E msg \in {"git clone failed", "git clone error"} :
                           sched' = [sched EXCEPT ![i].pc = "finish",
                                                  ![i].build_start = now,
                                                  ![i].final = "failure",
                                                  ![i].error_msg = Some(msg)]
                     \/ sched' = go                    \* cloned
       /\ UNCHANGED <<errVars, aggregate, intake, config, now, ci_builds, ci_build_steps, last>>

\* lines 158-168: insert the step row as running
StepStart(i) ==
    LET b == sched[i].build
        pipeline == pipeline_of(b)
        step_def == pipeline.steps[sched[i].seq + 1]
    IN /\ sched[i].pc = "step"
       /\ \/ Abort(i) /\ UNCHANGED ci_build_steps
          \/ /\ ci_build_steps' = start_step(ci_build_steps, b, step_def.name,
                                             sched[i].seq + 1, ci_builds[b].tenant_id)
             /\ sched' = [sched EXCEPT ![i].pc = "run",
                                       ![i].step_id = Len(ci_build_steps) + 1,
                                       ![i].step_start = now]
       /\ UNCHANGED <<errVars, aggregate, intake, workspaces, config, now, ci_builds, last>>

\* lines 177-261: run the command, finalize the step row, decide the loop;
\* cmd_result keeps which arm of the match on the command's result was taken
StepRun(i) ==
    LET pipeline == pipeline_of(sched[i].build)
        n == Len(pipeline.steps)
        seq == sched[i].seq
    IN /\ sched[i].pc = "run"
       /\ \E outcome \in StepOutcomes :
            LET r == step_result(outcome, pipeline.timeout_secs)
                exit_code == r[1]
                step_duration == now - sched[i].step_start
            IN \/ Abort(i) /\ UNCHANGED ci_build_steps
               \/ /\ ci_build_steps' =
                        complete_step(ci_build_steps, sched[i].step_id, exit_code,
                                      step_duration, Some(r[2]), Some(r[3]), now)
                  /\ IF exit_code # 0
                     THEN sched' = [sched EXCEPT
                                      ![i].cmd_result = outcome.kind,
                                      ![i].all_passed = FALSE,
                                      ![i].final = final_status(FALSE),
                                      ![i].seq = seq + 1,
                                      ![i].pc = IF seq + 1 < n THEN "skip" ELSE "finish"]
                     ELSE sched' = [sched EXCEPT
                                      ![i].cmd_result = outcome.kind,
                                      ![i].seq = seq + 1,
                                      ![i].pc = loop_pc(seq + 1, n)]
       /\ UNCHANGED <<errVars, aggregate, intake, workspaces, config, now, ci_builds, last>>

\* lines 177-261 for a command that exits in time with the output
\* sched[i].output: convert and truncate both streams, finalize the step row,
\* decide the loop.  A panic unwinds the task of the loop, which never polls
\* again.
StepRunOutput(i) ==
    LET pipeline == pipeline_of(sched[i].build)
        n == Len(pipeline.steps)
        seq == sched[i].seq
        output == sched[i].output
        exit_code == output.code
        stdout == truncate(from_utf8_lossy(output.stdout))
        stderr == truncate(from_utf8_lossy(output.stderr))
        step_duration == now - sched[i].step_start
    IN /\ sched[i].pc = "run"
       /\ IF stdout.panic \/ stderr.panic
          THEN /\ sched' = [sched EXCEPT ![i].pc = "panicked"]
               /\ UNCHANGED ci_build_steps
          ELSE \/ Abort(i) /\ UNCHANGED ci_build_steps
               \/ /\ ci_build_steps' =
                        complete_step(ci_build_steps, sched[i].step_id, exit_code,
                                      step_duration, Some(stdout.text),
                                      Some(stderr.text), now)
                  /\ IF exit_code # 0
                     THEN sched' = [sched EXCEPT
                                      ![i].cmd_result = "exit",
                                      ![i].all_passed = FALSE,
                                      ![i].final = final_status(FALSE),
                                      ![i].seq = seq + 1,
                                      ![i].pc = IF seq + 1 < n THEN "skip" ELSE "finish"]
                     ELSE sched' = [sched EXCEPT
                                      ![i].cmd_result = "exit",
                                      ![i].seq = seq + 1,
                                      ![i].pc = loop_pc(seq + 1, n)]
       /\ UNCHANGED <<errVars, aggregate, intake, workspaces, config, now, ci_builds, last>>

\* lines 240-248: insert the row of a skipped step
SkipStart(i) ==
    LET b == sched[i].build
        pipeline == pipeline_of(b)
        skip_step == pipeline.steps[sched[i].seq + 1]
    IN /\ sched[i].pc = "skip"
       /\ \/ Abort(i) /\ UNCHANGED ci_build_steps
          \/ /\ ci_build_steps' = start_step(ci_build_steps, b, skip_step.name,
                                             sched[i].seq + 1, ci_builds[b].tenant_id)
             /\ sched' = [sched EXCEPT ![i].pc = "skipped",
                                       ![i].step_id = Len(ci_build_steps) + 1]
       /\ UNCHANGED <<errVars, aggregate, intake, workspaces, config, now, ci_builds, last>>

\* lines 249-252: finalize the row of a skipped step
SkipComplete(i) ==
    LET n == Len(pipeline_of(sched[i].build).steps)
        seq == sched[i].seq
    IN /\ sched[i].pc = "skipped"
       /\ \/ Abort(i) /\ UNCHANGED ci_build_steps
          \/ /\ ci_build_steps' =
                   complete_step(ci_build_steps, sched[i].step_id, -1, 0, None,
                                 Some("Skipped (previous step failed)"), now)
             /\ sched' = [sched EXCEPT
                             ![i].seq = seq + 1,
                             ![i].pc = IF seq + 1 < n THEN "skip" ELSE "finish"]
       /\ UNCHANGED <<errVars, aggregate, intake, workspaces, config, now, ci_builds, last>>

\* line 264 and the clone-failure exits of lines 113-119, which return
\* after finish_build; after line 264 a cloned workspace is cleaned up
FinishBuild(i) ==
    /\ sched[i].pc = "finish"
    /\ \/ Abort(i) /\ UNCHANGED ci_builds
       \/ /\ ci_builds' = finish_build(ci_builds, sched[i].build, sched[i].final,
                                       sched[i].build_start, sched[i].error_msg, now)
          /\ sched' = IF /\ sched[i].error_msg = None
                         /\ pipeline_of(sched[i].build).local_path = None
                      THEN [sched EXCEPT ![i].pc = "cleanup"]
                      ELSE [sched EXCEPT ![i] = Idle]
    /\ UNCHANGED <<errVars, aggregate, intake, workspaces, config, now, ci_build_steps, last>>

\* lines 266-270: let _ = remove_dir_all(workspace), then Ok(())
Cleanup(i) ==
    /\ sched[i].pc = "cleanup"
    /\ \E ok \in BOOLEAN :
          workspaces' = remove_dir_all(workspaces, sched[i].build, ok)
    /\ sched' = [sched EXCEPT ![i] = Idle]
    /\ UNCHANGED <<errVars, aggregate, intake, config, now, ci_builds, ci_build_steps, last>>

poll_and_execute(i) ==
    \/ PollCount(i)
    \/ PollSelect(i)
    \/ MarkRunning(i)
    \/ Workspace(i)
    \/ StepStart(i)
    \/ StepRun(i)
    \/ SkipStart(i)
    \/ SkipComplete(i)
    \/ FinishBuild(i)
    \/ Cleanup(i)

---------------------------------------------------------------------------
(* HTTP handlers, each handled to its reply in one step *)

\* POST /ci/webhook/github: routes::webhook_handler for the delivery d
Deliver(d) ==
    LET r == handle_webhook(config, ci_builds, now, d.event_type,
                            d.signature, d.body, d.fault)
    IN /\ is_some(r.new) => Len(ci_builds) < MaxBuilds
       /\ last' = [op |-> "webhook", code |-> r.code]
       /\ ci_builds' = IF is_some(r.new)
                       THEN create_build(ci_builds, unwrap(r.new), now)
                       ELSE ci_builds
       /\ UNCHANGED <<errVars, aggregate, intake, workspaces, config, now, ci_build_steps, sched>>

Webhook(D) == \E d \in D : Deliver(d)

\* POST /ci/api/builds/trigger, for the requests of R, while ci_builds has
\* fewer than max_rows rows
Trigger(R, max_rows) ==
    /\ \E q \in R :
          LET r == trigger_build(q[1], q[2])
          IN /\ is_some(r.new) => Len(ci_builds) < max_rows
             /\ ci_builds' = IF is_some(r.new)
                             THEN create_build(ci_builds, unwrap(r.new), now)
                             ELSE ci_builds
             /\ last' = [op |-> "trigger", code |-> r.code]
    /\ UNCHANGED <<errVars, aggregate, intake, workspaces, config, now, ci_build_steps, sched>>

\* The tasks of the HTTP pool that handle webhooks at the same time
Tasks == {1, 2}

\* a task outside handle_webhook
IdleTask == [pc |-> "idle", new |-> None]

\* the inserts that tasks other than t are about to make
InFlight(t) == Cardinality({u \in Tasks \ {t} : intake[u].pc = "insert"})

\* handle_webhook of task t up to the reply or, for a delivery that is to
\* create a build, up to the duplicate check (webhook.rs 20-106, 150-201)
IntakeCheck(t, D) ==
    /\ intake[t].pc = "idle"
    /\ \E d \in D :
          LET r == handle_webhook(config, ci_builds, now, d.event_type,
                                  d.signature, d.body, d.fault)
          IN IF is_some(r.new)
             THEN /\ Len(ci_builds) + InFlight(t) < MaxBuilds
                  /\ intake' = [intake EXCEPT ![t] = [pc |-> "insert", new |-> r.new]]
                  /\ UNCHANGED last
             ELSE /\ last' = [op |-> "webhook", code |-> r.code]
                  /\ UNCHANGED intake
    /\ UNCHANGED <<errVars, aggregate, workspaces, config, now, ci_builds, ci_build_steps, sched>>

\* the rest of handle_push / handle_pull_request of task t: create_build and
\* the reply (webhook.rs 108-148, 203-234)
IntakeInsert(t) ==
    /\ intake[t].pc = "insert"
    /\ ci_builds' = create_build(ci_builds, unwrap(intake[t].new), now)
    /\ last' = [op |-> "webhook", code |-> 201]
    /\ intake' = [intake EXCEPT ![t] = IdleTask]
    /\ UNCHANGED <<errVars, aggregate, workspaces, config, now, ci_build_steps, sched>>

\* the variants of CiBuildEvent; apply reads none of their fields
CiBuildEvent ==
    {"BuildCreated", "BuildStarted", "StepCompleted", "BuildSucceeded",
     "BuildFailed", "BuildCancelled"}

\* CiBuildAggregate::default()
Default == [status |-> "", started |-> FALSE, finished |-> FALSE]

\* CiBuildAggregate::apply
apply(self, event) ==
    CASE event = "BuildCreated" -> [self EXCEPT !.status = "pending"]
      [] event = "BuildStarted" -> [self EXCEPT !.status = "running", !.started = TRUE]
      [] event = "StepCompleted" -> self
      [] event = "BuildSucceeded" -> [self EXCEPT !.status = "success", !.finished = TRUE]
      [] event = "BuildFailed" -> [self EXCEPT !.status = "failure", !.finished = TRUE]
      [] event = "BuildCancelled" -> [self EXCEPT !.status = "cancelled", !.finished = TRUE]

\* an aggregate to which no event has been applied
NewAggregate == [state |-> Default, applied |-> <<>>]

\* one more event of the stream is applied to the aggregate
Apply(E) ==
    /\ Len(aggregate.applied) < MaxEvents
    /\ \E event \in E :
          aggregate' = [state |-> apply(aggregate.state, event),
                        applied |-> Append(aggregate.applied, event)]
    /\ UNCHANGED <<errVars, intake, workspaces, config, now, ci_builds,
                   ci_build_steps, sched, last>>

\* the clock
Tick ==
    /\ now < MaxTime
    /\ now' = now + 1
    /\ UNCHANGED <<errVars, aggregate, intake, workspaces, config, ci_builds, ci_build_steps, sched, last>>

\* the clock, one millisecond at a time, while the executor awaits
Elapse ==
    /\ now < MaxMillis
    /\ now' = now + 1
    /\ UNCHANGED <<errVars, aggregate, intake, workspaces, config, ci_builds, ci_build_steps, sched, last>>

---------------------------------------------------------------------------
(* Error Classifier: error_service.  A text is a sequence of characters.   *)

Digits == {"0", "1", "2", "3", "4", "5", "6", "7", "8", "9"}

LowerCase ==
    <<"a", "b", "c", "d", "e", "f", "g", "h", "i", "j", "k", "l", "m",
      "n", "o", "p", "q", "r", "s", "t", "u", "v", "w", "x", "y", "z">>

UpperCase ==
    <<"A", "B", "C", "D", "E", "F", "G", "H", "I", "J", "K", "L", "M",
      "N", "O", "P", "Q", "R", "S", "T", "U", "V", "W", "X", "Y", "Z">>

Letters == {LowerCase[k] : k \in DOMAIN LowerCase} \cup
           {UpperCase[k] : k \in DOMAIN UpperCase}

IsDigit(c) == c \in Digits

\* the class of PATH_REGEX without the slash
PathCharsNoSlash == Digits \cup Letters \cup {"_", ".", "-"}

\* the class [a-zA-Z0-9_./-] of PATH_REGEX
PathChars == Digits \cup Letters \cup {"_", ".", "/", "-"}

\* char::is_whitespace, on ASCII
WhiteSpace == {" ", "\t", "\n", "\r"}

\* \w of the regex crate, on ASCII
IsWord(c) == c \in Digits \cup Letters \cup {"_"}

IsPathChar(c) == c \in PathChars

IsSpace(c) == c \in WhiteSpace

\* the last position of the longest run of characters of the class S that
\* starts at position i (text[i] is in S)
RunEnd(text, i, S) ==
    CHOOSE j \in i..Len(text) :
        /\ \A k \in i..j : text[k] \in S
        /\ j = Len(text) \/ text[j + 1] \notin S

\* the last position of the longest run of characters outside S that starts
\* at position i (text[i] is not in S)
RunEndNot(text, i, S) ==
    CHOOSE j \in i..Len(text) :
        /\ \A k \in i..j : text[k] \notin S
        /\ j = Len(text) \/ text[j + 1] \in S

\* NUMERIC_REGEX.replace_all(text, "N") from position i: a run of digits
\* with a word boundary on both sides becomes N
RECURSIVE replace_numeric(_, _)
replace_numeric(text, i) ==
    IF i > Len(text) THEN <<>>
    ELSE IF /\ IsDigit(text[i])
            /\ i = 1 \/ ~IsWord(text[i - 1])
            /\ LET j == RunEnd(text, i, Digits)
               IN j = Len(text) \/ ~IsWord(text[j + 1])
         THEN <<"N">> \o replace_numeric(text, RunEnd(text, i, Digits) + 1)
         ELSE <<text[i]>> \o replace_numeric(text, i + 1)

\* PATH_REGEX.replace_all(text, "PATH") from position i
RECURSIVE replace_path(_, _)
replace_path(text, i) ==
    IF i > Len(text) THEN <<>>
    ELSE IF text[i] = "/" /\ i < Len(text) /\ IsPathChar(text[i + 1])
         THEN <<"P", "A", "T", "H">>
                 \o replace_path(text, RunEnd(text, i + 1, PathChars) + 1)
         ELSE <<text[i]>> \o replace_path(text, i + 1)

\* str::split_whitespace from position i
RECURSIVE split_whitespace(_, _)
split_whitespace(text, i) ==
    IF i > Len(text) THEN <<>>
    ELSE IF IsSpace(text[i]) THEN split_whitespace(text, i + 1)
         ELSE <<SubSeq(text, i, RunEndNot(text, i, WhiteSpace))>>
                 \o split_whitespace(text, RunEndNot(text, i, WhiteSpace) + 1)

\* [&str]::join
RECURSIVE join(_, _)
join(words, sep) ==
    IF words = <<>> THEN <<>>
    ELSE IF Len(words) = 1 THEN words[1]
         ELSE words[1] \o sep \o join(Tail(words), sep)

normalize(text) ==
    join(split_whitespace(replace_path(replace_numeric(text, 1), 1), 1), <<" ">>)

\* hex of the first 16 bytes of SHA-256: a value that stands for the digest
\* of the text, different texts having different digests
fingerprint(normalized) == <<"sha256/128">> \o normalized

to_lowercase(text) ==
    [k \in 1..Len(text) |->
        IF \E n \in DOMAIN UpperCase : UpperCase[n] = text[k]
        THEN LowerCase[CHOOSE n \in DOMAIN UpperCase : UpperCase[n] = text[k]]
        ELSE text[k]]

\* str::contains
contains(text, pat) ==
    \E i \in 1..(Len(text) - Len(pat) + 1) :
        SubSeq(text, i, i + Len(pat) - 1) = pat

\* classify_category with the test keywords looked up first
classify_category_test_first(text) ==
    LET lower == to_lowercase(text)
    IN IF \/ contains(lower, <<"t", "e", "s", "t">>)
          \/ contains(lower, <<"a", "s", "s", "e", "r", "t", "i", "o", "n">>)
          \/ contains(lower, <<"p", "a", "n", "i", "c", "k", "e", "d">>)
       THEN "test"
       ELSE IF \/ contains(lower, <<"c", "o", "m", "p", "i", "l", "e">>)
               \/ contains(lower, <<"e", "x", "p", "e", "c", "t", "e", "d">>)
       THEN "compile"
       ELSE "runtime"

classify_category(text) ==
    LET lower == to_lowercase(text)
    IN IF \/ contains(lower, <<"c", "o", "m", "p", "i", "l", "e">>)
          \/ contains(lower, <<"c", "a", "n", "n", "o", "t", " ", "f", "i", "n", "d">>)
          \/ contains(lower, <<"e", "x", "p", "e", "c", "t", "e", "d">>)
       THEN "compile"
       ELSE IF \/ contains(lower, <<"t", "e", "s", "t">>)
               \/ contains(lower, <<"a", "s", "s", "e", "r", "t", "i", "o", "n">>)
               \/ contains(lower, <<"p", "a", "n", "i", "c", "k", "e", "d">>)
       THEN "test"
       ELSE IF \/ contains(lower, <<"l", "i", "n", "t">>)
               \/ contains(lower, <<"c", "l", "i", "p", "p", "y">>)
               \/ contains(lower, <<"w", "a", "r", "n", "i", "n", "g">>)
       THEN "lint"
       ELSE IF \/ contains(lower, <<"t", "i", "m", "e", "o", "u", "t">>)
               \/ contains(lower, <<"t", "i", "m", "e", "d", " ", "o", "u", "t">>)
       THEN "timeout"
       ELSE "runtime"

\* raw_text.lines().next().unwrap_or("Unknown error"), cut to 200 bytes
title_of(raw_text) ==
    LET end == IF raw_text[1] = "\n" THEN 0
               ELSE RunEndNot(raw_text, 1, {"\n"})
        cut == IF /\ 0 < end /\ end < Len(raw_text)
                  /\ raw_text[end] = "\r"
               THEN end - 1 ELSE end
        line == IF raw_text = <<>>
                THEN <<"U", "n", "k", "n", "o", "w", "n", " ", "e", "r", "r", "o", "r">>
                ELSE SubSeq(raw_text, 1, cut)
    IN IF Len(line) > TitleMax THEN SubSeq(line, 1, TitleMax) ELSE line

\* The callers of record_error, each on its own connection
Callers == {1, 2}

NoArgs == [build_id |-> 0, step_name |-> "", raw_text |-> <<>>,
           tenant_id |-> "", project_id |-> None]

\* a caller outside record_error; n counts the calls it has made
IdleCall == [pc |-> "idle", args |-> NoArgs, existing |-> None,
             error_id |-> 0, reply |-> "none", n |-> 0]

\* the texts passed to record_error: the first two normalize to the same
\* text, the third does not
RawTexts ==
    {<<"e", "r", "r", " ", "1", "2", " ", "/", "a">>,
     <<"e", "r", "r", "\n", "7", " ", " ", "/", "b", ".", "c">>,
     <<"t", "e", "s", "t", " ", "x", "1">>}

Call(build_id, raw_text, tenant_id) ==
    [build_id |-> build_id, step_name |-> "a", raw_text |-> raw_text,
     tenant_id |-> tenant_id, project_id |-> Some(1)]

\* the rows of ci_errors a call's first query matches
matching(errors, args) ==
    {e \in 1..Len(errors) :
        /\ errors[e].fingerprint = fingerprint(normalize(args.raw_text))
        /\ errors[e].tenant_id = args.tenant_id}

\* the UPDATE of lines 69-75, from the row as it was read
update_error(errors, err, t) ==
    [errors EXCEPT ![err.id] =
        [@ EXCEPT !.occurrence_count = err.occurrence_count + 1,
                  !.last_seen_at = t]]

\* the INSERT of lines 79-106
insert_error(errors, args, t) ==
    Append(errors,
           [id |-> Len(errors) + 1,
            tenant_id |-> args.tenant_id,
            project_id |-> args.project_id,
            fingerprint |-> fingerprint(normalize(args.raw_text)),
            category |-> classify_category(args.raw_text),
            severity |-> "error",
            title |-> title_of(args.raw_text),
            first_seen_at |-> t,
            last_seen_at |-> t,
            occurrence_count |-> 1,
            status |-> "open",
            raw_text |-> args.raw_text,
            normalized_text |-> normalize(args.raw_text)])

\* the INSERT of lines 111-122
insert_occurrence(occurrences, args, error_id) ==
    Append(occurrences,
           [id |-> Len(occurrences) + 1,
            tenant_id |-> args.tenant_id,
            error_id |-> error_id,
            build_id |-> args.build_id,
            step_name |-> args.step_name,
            raw_output |-> Some(args.raw_text)])

\* a `?` of record_error: the call returns the error
Fail(c) == rec' = [rec EXCEPT ![c] = [IdleCall EXCEPT !.reply = "err", !.n = rec[c].n]]

CallsMade == rec[1].n + rec[2].n

\* lines 46-57: caller c enters record_error with one of the calls of A;
\* when known is TRUE, only with the id of a build that exists
RecordBegin(c, A, known) ==
    /\ rec[c].pc = "idle"
    /\ CallsMade < MaxCalls
    /\ \E a \in A :
          /\ known => a.build_id \in 1..Len(ci_builds)
          /\ rec' = [rec EXCEPT ![c] = [IdleCall EXCEPT !.pc = "find", !.args = a,
                                                        !.n = rec[c].n + 1]]
    /\ UNCHANGED <<coreVars, ci_errors, ci_error_occurrences>>

\* lines 59-65: read the Error of (tenant, fingerprint); a statement fails
\* when failing is TRUE, for the values F of failing
RecordFind(c, F) ==
    /\ rec[c].pc = "find"
    /\ \E failing \in F :
          IF failing THEN Fail(c)
          ELSE LET m == matching(ci_errors, rec[c].args)
               IN IF m = {}
                  THEN rec' = [rec EXCEPT ![c].pc = "upsert", ![c].existing = None]
                  ELSE \E e \in m :
                          rec' = [rec EXCEPT ![c].pc = "upsert",
                                             ![c].existing = Some(ci_errors[e])]
    /\ UNCHANGED <<coreVars, ci_errors, ci_error_occurrences>>

\* lines 67-108: increment the row that was read, or insert a new one
RecordUpsert(c, F) ==
    /\ rec[c].pc = "upsert"
    /\ \E failing \in F :
          IF failing THEN Fail(c) /\ UNCHANGED ci_errors
          ELSE IF is_some(rec[c].existing)
          THEN /\ ci_errors' = update_error(ci_errors, unwrap(rec[c].existing), now)
               /\ rec' = [rec EXCEPT ![c].pc = "occurrence",
                                     ![c].error_id = unwrap(rec[c].existing).id]
          ELSE IF unwrap_or(rec[c].args.project_id, 1) \notin ProjectIds
          THEN Fail(c) /\ UNCHANGED ci_errors         \* foreign key project_id
          ELSE /\ ci_errors' = insert_error(ci_errors, rec[c].args, now)
               /\ rec' = [rec EXCEPT ![c].pc = "occurrence",
                                     ![c].error_id = Len(ci_errors) + 1]
    /\ UNCHANGED <<coreVars, ci_error_occurrences>>

\* lines 110-126: insert the occurrence and return the id of the Error
RecordOccurrence(c, F) ==
    /\ rec[c].pc = "occurrence"
    /\ \E failing \in F :
          IF failing \/ rec[c].args.build_id \notin 1..Len(ci_builds)
          THEN Fail(c) /\ UNCHANGED ci_error_occurrences   \* or foreign key build_id
          ELSE /\ ci_error_occurrences' =
                     insert_occurrence(ci_error_occurrences, rec[c].args, rec[c].error_id)
               /\ rec' = [rec EXCEPT ![c] = [IdleCall EXCEPT !.reply = "ok",
                                                             !.error_id = rec[c].error_id,
                                                             !.n = rec[c].n]]
    /\ UNCHANGED <<coreVars, ci_errors>>

\* record_error run by caller c, one statement per step
record_error(c, A, known, F) ==
    \/ RecordBegin(c, A, known)
    \/ RecordFind(c, F)
    \/ RecordUpsert(c, F)
    \/ RecordOccurrence(c, F)

---------------------------------------------------------------------------
(* The server with one executor loop *)

Configs(secrets, caps) ==
    [github_webhook_secret : secrets,
     max_concurrent_builds : caps,
     throttle_window_secs : {throttle_window_secs},
     github_token : {""}]                 \* CI_GITHUB_TOKEN is not set

InitErr ==
    /\ ci_errors = <<>>
    /\ ci_error_occurrences = <<>>
    /\ rec = [c \in Callers |-> IdleCall]

InitCore(configs) ==
    /\ config \in configs
    /\ now = 0
    /\ ci_builds = <<>>
    /\ ci_build_steps = <<>>
    /\ sched = [i \in Instances |-> Idle]
    /\ last = [op |-> "none", code |-> 0]
    /\ workspaces = NoWorkspaces
    /\ intake = [t \in Tasks |-> IdleTask]
    /\ aggregate = NewAggregate

Init == InitCore(Configs({"s"}, 1..MaxConcurrent)) /\ InitErr

Next ==
    \/ poll_and_execute(1)
    \/ Webhook(CoreDeliveries)
    \/ Trigger(CoreTriggers, MaxBuilds)

Spec == Init /\ [][Next]_vars

---------------------------------------------------------------------------
(* Webhook Intake and the manual trigger on their own: every delivery and   *)
(* request, the clock running, no executor loop                             *)

InitIntake == InitCore(Configs({"", "s"}, {1})) /\ InitErr

NextIntake ==
    \/ Webhook(Deliveries)
    \/ Trigger(Triggers, MaxBuilds)
    \/ Tick

SpecIntake == InitIntake /\ [][NextIntake]_vars

---------------------------------------------------------------------------
(* Two executor loops on one Store, their round trips interleaved; builds   *)
(* arrive by the manual trigger                                             *)

InitTwo == InitCore(Configs({"s"}, {1})) /\ InitErr

NextTwo ==
    \/ poll_and_execute(1)
    \/ poll_and_execute(2)
    \/ Trigger(CloneTriggers, MaxBuildsTwo)

SpecTwo == InitTwo /\ [][NextTwo]_vars

---------------------------------------------------------------------------
(* record_error called one call at a time; any statement may fail; builds  *)
(* arrive by the manual trigger                                             *)

SequentialCalls ==
    {Call(b, x, t) : b \in {1, 2}, x \in RawTexts, t \in {"t1", "t2"}}

NextErr ==
    \/ Trigger(CoreTriggers, MaxBuildsTwo)
    \/ record_error(1, SequentialCalls, FALSE, BOOLEAN)

SpecErr == Init /\ [][NextErr]_vars

---------------------------------------------------------------------------
(* record_error called by two callers at once for the existing builds; no  *)
(* statement fails                                                          *)

ConcurrentCalls == {Call(1, x, "t1") : x \in RawTexts}

NextErrConc ==
    \/ Trigger(CoreTriggers, MaxBuildsTwo)
    \/ record_error(1, ConcurrentCalls, TRUE, {FALSE})
    \/ record_error(2, ConcurrentCalls, TRUE, {FALSE})

SpecErrConc == Init /\ [][NextErrConc]_vars

---------------------------------------------------------------------------
(* The server with one executor loop that is never starved: run_executor    *)
(* sleeps five seconds and polls again, for ever, and every awaited         *)
(* operation of a tick returns                                              *)

SpecLive == Init /\ [][Next]_vars /\ WF_vars(poll_and_execute(1))

---------------------------------------------------------------------------
(* One executor loop with the clock running, in milliseconds; builds arrive *)
(* by the manual trigger                                                    *)

NextTimed ==
    \/ poll_and_execute(1)
    \/ Trigger(CloneTriggers, MaxBuildsTwo)
    \/ Elapse

SpecTimed == Init /\ [][NextTimed]_vars

---------------------------------------------------------------------------
(* record_error called once, for a build that exists, with each text of up  *)
(* to MaxLen characters: a digit, a letter, a slash, white space, a colon   *)
(* and a hyphen                                                             *)

NormalizeAlphabet == {"7", "a", "/", " ", ":", "-"}

RECURSIVE TextsOf(_)
TextsOf(k) ==
    IF k = 0 THEN {<<>>}
    ELSE TextsOf(k - 1) \cup
         {Append(x, c) : x \in {y \in TextsOf(k - 1) : Len(y) = k - 1},
                         c \in NormalizeAlphabet}

InitNormalize ==
    /\ InitCore(Configs({"s"}, {1}))
    /\ ci_errors = <<>>
    /\ ci_error_occurrences = <<>>
    /\ \E x \in TextsOf(MaxLen) :
          rec = [c \in Callers |->
                    IF c = 1
                    THEN [IdleCall EXCEPT !.pc = "find", !.args = Call(1, x, "t1"),
                                          !.n = 1]
                    ELSE IdleCall]

NextNormalize ==
    \/ Trigger(CoreTriggers, MaxBuildsTwo)
    \/ RecordFind(1, {FALSE})
    \/ RecordUpsert(1, {FALSE})
    \/ RecordOccurrence(1, {FALSE})

SpecNormalize == InitNormalize /\ [][NextNormalize]_vars

---------------------------------------------------------------------------
(* Webhook Intake with and without a forge token, the status request of a   *)
(* delivery going through or failing                                        *)

CallbackDeliveries ==
    {Delivery("push", Signed("s", Push(r)), Push(r), f) :
        r \in {"acme/app", "acme/web", "ghost/none"},
        f \in {"none"} \cup CallbackFaults} \cup
    {Delivery("pull_request", Signed("s", PullRequest("acme/app", "opened")),
              PullRequest("acme/app", "opened"), f) :
        f \in {"none"} \cup CallbackFaults}

CallbackConfigs ==
    {[c EXCEPT !.github_token = token] :
        c \in Configs({"s"}, {1}), token \in {"", "tok"}}

InitCallback == InitCore(CallbackConfigs) /\ InitErr

NextCallback ==
    \/ Webhook(CallbackDeliveries)
    \/ Tick

SpecCallback == InitCallback /\ [][NextCallback]_vars

---------------------------------------------------------------------------
(* One executor loop at the single step of a build of acme/web, whose       *)
(* command is about to exit with one of ProcessOutputs                      *)

InitTruncate ==
    /\ config \in Configs({"s"}, {1})
    /\ now = 0
    /\ last = [op |-> "none", code |-> 0]
    /\ workspaces = create_dir_all(NoWorkspaces, 1)
    /\ intake = [t \in Tasks |-> IdleTask]
    /\ aggregate = NewAggregate
    /\ ci_builds = [create_build(<<>>, unwrap(trigger_build(
                       TriggerRequest(3, None, None), "none").new), 0)
                    EXCEPT ![1].status = "running", ![1].started_at = Some(0)]
    /\ ci_build_steps = start_step(<<>>, 1, "check", 1, ci_projects[3].tenant_id)
    /\ \E o \in ProcessOutputs :
          sched = [i \in Instances |->
                      IF i = 1
                      THEN [Idle EXCEPT !.pc = "run", !.build = 1, !.step_id = 1,
                                        !.output = o]
                      ELSE Idle]
    /\ InitErr

NextTruncate ==
    \/ StepRunOutput(1)
    \/ FinishBuild(1)
    \/ Cleanup(1)

SpecTruncate == InitTruncate /\ [][NextTruncate]_vars

---------------------------------------------------------------------------
(* Properties of the server with one executor loop (Spec) *)

BuildIds == 1..Len(ci_builds)
StepsOf(b) == {k \in 1..Len(ci_build_steps) : ci_build_steps[k].build_id = b}
Terminal == {"success", "failure", "cancelled"}

\* C1: Concurrency cap.  With one executor loop, the number of builds in
\* status running never exceeds max_concurrent_builds, and while a tick is
\* admitting a build (it has counted and not yet claimed) the running count
\* is strictly below the cap.
C1_ConcurrencyCap ==
    /\ running_count(ci_builds) <= config.max_concurrent_builds
    /\ sched[1].pc \in {"select", "mark"} =>
          running_count(ci_builds) < config.max_concurrent_builds

\* C1 witness: the running count has reached the cap, a build is pending and
\* the loop is between ticks, so the next tick must refuse to admit.
C1_Witness ==
    /\ running_count(ci_builds) = config.max_concurrent_builds
    /\ pending_ids(ci_builds) # {}
    /\ sched[1].pc = "idle"

\* C3: Build status is monotonic: a row is created pending, and a status
\* changes only pending -> running or running -> terminal.
C3_StatusMonotonic ==
    [][ /\ \A b \in BuildIds :
             LET old == ci_builds[b].status
                 new == ci_builds'[b].status
             IN \/ new = old
                \/ old = "pending" /\ new = "running"
                \/ old = "running" /\ new \in Terminal
        /\ \A b \in 1..Len(ci_builds') :
             b \notin BuildIds => ci_builds'[b].status = "pending" ]_vars

\* C7: Outcome/step consistency: a success build has only steps with
\* exit_code = 0; a failure build with at least one step has a step with
\* exit_code # 0.
C7_OutcomeStepConsistency ==
    \A b \in BuildIds :
        /\ ci_builds[b].status = "success" =>
              \A k \in StepsOf(b) : ci_build_steps[k].exit_code = Some(0)
        /\ (ci_builds[b].status = "failure" /\ StepsOf(b) # {}) =>
              \E k \in StepsOf(b) :
                  /\ is_some(ci_build_steps[k].exit_code)
                  /\ ci_build_steps[k].exit_code # Some(0)

\* C8: Step numbering: the sequence values of a build's step rows are
\* exactly 1..n for its n rows, without duplicates or gaps.
C8_StepNumbering ==
    \A b \in BuildIds :
        LET seqs == {ci_build_steps[k].sequence : k \in StepsOf(b)}
            n == Cardinality(StepsOf(b))
        IN seqs = 1..n

---------------------------------------------------------------------------
(* Properties of Webhook Intake (SpecIntake) *)

\* the signature header is missing, is not hex, or is not the HMAC-SHA256 of
\* the raw body under the configured secret
BadSignature(d) ==
    \/ d.signature = EmptyHeader
    \/ d.signature.digits[1] # "hex"
    \/ d.signature.digits[2] # HmacSha256(config.github_webhook_secret, d.body)

\* C5: Signature rejection.  With a non-empty secret, a delivery whose
\* signature header is missing, not hex or not the HMAC of the body is
\* answered 401 and no row of any table changes, whatever the event and
\* whether or not the body is JSON.
C5_SignatureRejected ==
    [][ config.github_webhook_secret # "" =>
          \/ /\ last'.code = 401
             /\ UNCHANGED <<ci_builds, ci_build_steps, ci_errors,
                            ci_error_occurrences>>
          \/ \A d \in SignatureDeliveries : ~(BadSignature(d) /\ Deliver(d)) ]_vars

\* C5 witness: a secret is configured and the last delivery was answered 401.
C5_Witness ==
    /\ config.github_webhook_secret # ""
    /\ last = [op |-> "webhook", code |-> 401]

\* C6: Build creation shape.  A row inserted by Webhook Intake is pending,
\* has started_at, finished_at and duration_ms unset, carries the event as
\* trigger_event and the fingerprint "{sha}-{branch}-push" or
\* "{sha}-{branch}-pr{N}"; the reply is 201.
C6_BuildCreationShape ==
    [][ Len(ci_builds') = Len(ci_builds) + 1 =>
          \A d \in Deliveries :
             Deliver(d) =>
                LET row == ci_builds'[Len(ci_builds')]
                    body == d.body
                IN /\ last'.code = 201
                   /\ row.status = "pending"
                   /\ row.started_at = None
                   /\ row.finished_at = None
                   /\ row.duration_ms = None
                   /\ d.event_type \in {"push", "pull_request"}
                   /\ row.trigger_event = d.event_type
                   /\ d.event_type = "push" =>
                         row.fingerprint =
                            body.after \o "-" \o body.ref[2] \o "-push"
                   /\ d.event_type = "pull_request" =>
                         row.fingerprint =
                            body.head_sha \o "-" \o body.head_ref \o "-pr"
                               \o ToString(body.number) ]_vars

\* C6 witness: the last delivery was answered 201 and both a push build and
\* a pull-request build have been inserted.
C6_Witness ==
    /\ last = [op |-> "webhook", code |-> 201]
    /\ \E b \in BuildIds : ci_builds[b].fingerprint = "c0ffee-main-push"
    /\ \E b \in BuildIds : ci_builds[b].fingerprint = "c0ffee-main-pr7"

\* C4: Webhook dedup, sequential replay.  Deliveries of an identical push or
\* pull_request webhook create one build per throttle window: two builds of
\* one project with the same webhook fingerprint are never created less than
\* throttle_window_secs apart.
C4_OneBuildPerWindow ==
    \A i \in BuildIds : \A j \in BuildIds :
        ( /\ i < j
          /\ ci_builds[i].trigger_event \in {"push", "pull_request"}
          /\ ci_builds[j].trigger_event = ci_builds[i].trigger_event
          /\ ci_builds[j].project_id = ci_builds[i].project_id
          /\ ci_builds[j].fingerprint = ci_builds[i].fingerprint )
        => ci_builds[j].create_date - ci_builds[i].create_date
              >= config.throttle_window_secs

---------------------------------------------------------------------------
(* Properties of two executor loops (SpecTwo) *)

\* the positions of poll_and_execute at which the instance has claimed its
\* build and is executing it
Claimed == {"workspace", "step", "run", "skip", "skipped", "finish"}

\* C2: Exclusive claim.  With two scheduler instances no build is claimed by
\* both: two instances never execute the same build.
C2_ExclusiveClaim ==
    \A i \in Instances : \A j \in Instances :
        ( /\ i # j
          /\ sched[i].pc \in Claimed
          /\ sched[j].pc \in Claimed )
        => sched[i].build # sched[j].build

---------------------------------------------------------------------------
(* Properties of the Error Classifier (SpecErr, SpecErrConc) *)

\* the (tenant, fingerprint) pairs present in ci_errors
ErrorPairs ==
    {<<ci_errors[e].tenant_id, ci_errors[e].fingerprint>> : e \in 1..Len(ci_errors)}

RowsOf(pair) ==
    {e \in 1..Len(ci_errors) :
        <<ci_errors[e].tenant_id, ci_errors[e].fingerprint>> = pair}

OccurrencesOf(e) ==
    {o \in 1..Len(ci_error_occurrences) : ci_error_occurrences[o].error_id = e}

\* C9: Error catalog consistency.  Whenever no record_error call is in
\* progress, every (tenant, fingerprint) pair of ci_errors has exactly one
\* row, and the occurrence_count of every row is the number of occurrence
\* rows that reference it.
C9_CatalogConsistent ==
    rec[1].pc = "idle" =>
        /\ \A pair \in ErrorPairs : Cardinality(RowsOf(pair)) = 1
        /\ \A e \in 1..Len(ci_errors) :
              ci_errors[e].occurrence_count = Cardinality(OccurrencesOf(e))

\* C10: Concurrent error upsert.  Once two concurrent calls for the same
\* (tenant, fingerprint) have both returned, the pair has one Error row and
\* its occurrence_count is the number of occurrences recorded for the pair.
C10_ConcurrentUpsert ==
    (\A c \in Callers : rec[c].pc = "idle") =>
        \A pair \in ErrorPairs :
            /\ Cardinality(RowsOf(pair)) = 1
            /\ \A e \in RowsOf(pair) :
                  ci_errors[e].occurrence_count =
                     Cardinality(UNION {OccurrencesOf(r) : r \in RowsOf(pair)})

---------------------------------------------------------------------------
(* Timestamps of builds (SpecTwo) *)

\* C11: Running-build timestamps.  Every build with status running has
\* started_at set and finished_at null.
C11_RunningTimestamps ==
    \A b \in BuildIds :
        ci_builds[b].status = "running" =>
            /\ is_some(ci_builds[b].started_at)
            /\ ci_builds[b].finished_at = None

\* C12: Write-once timestamps.  started_at is written once, by the claim
\* (pending -> running) of a build whose started_at is unset; finished_at and
\* duration_ms are written once, by the transition from running to a terminal
\* status of a build in which they are unset; no other step changes them.
C12_WriteOnceTimestamps ==
    [][ \A b \in BuildIds :
          LET old == ci_builds[b]
              new == ci_builds'[b]
              claimed == \E i \in Instances :
                            /\ sched[i].build = b
                            /\ sched[i].pc = "mark"
                            /\ sched'[i].pc = "workspace"
          IN /\ claimed => old.status = "pending" /\ old.started_at = None
             /\ new.started_at # old.started_at => claimed
             /\ (old.status = "pending" /\ new.status = "running") =>
                   is_some(new.started_at)
             /\ (new.finished_at # old.finished_at \/ new.duration_ms # old.duration_ms) =>
                   /\ old.status = "running" /\ new.status \in Terminal
                   /\ old.finished_at = None /\ old.duration_ms = None
             /\ (old.status # new.status /\ new.status \in Terminal) =>
                   is_some(new.finished_at) /\ is_some(new.duration_ms) ]_vars

---------------------------------------------------------------------------
(* Timing of builds (SpecTimed) *)

\* C13: Terminal-build timing.  For every build in a terminal status,
\* started_at <= finished_at and duration_ms is finished_at - started_at
\* within 1 ms.
C13_TerminalTiming ==
    \A b \in BuildIds :
        ci_builds[b].status \in Terminal =>
            LET started == unwrap(ci_builds[b].started_at)
                finished == unwrap(ci_builds[b].finished_at)
                duration == unwrap(ci_builds[b].duration_ms)
            IN /\ started <= finished
               /\ duration - (finished - started) \in {-1, 0, 1}

---------------------------------------------------------------------------
(* Properties of the step loop (Spec) *)

SkipMessage == "Skipped (previous step failed)"

\* the rows of build b whose command was run and did not exit 0
FailedRuns(b) ==
    {k \in StepsOf(b) :
        /\ is_some(ci_build_steps[k].exit_code)
        /\ ci_build_steps[k].exit_code # Some(0)
        /\ ci_build_steps[k].stderr # Some(SkipMessage)}

\* the row of build b at position j is the record of a skipped step
SkippedAt(b, j) ==
    \E k \in StepsOf(b) :
        /\ ci_build_steps[k].sequence = j
        /\ ci_build_steps[k].status = "failure"
        /\ ci_build_steps[k].exit_code = Some(-1)
        /\ ci_build_steps[k].duration_ms = Some(0)
        /\ ci_build_steps[k].stderr = Some(SkipMessage)

\* C14: Fail-fast.  Once the executor has left a build in whose pipeline
\* s_1..s_n step s_i was the first to fail, no later step was run, each of
\* s_{i+1}..s_n has a row finalized as failure with exit_code -1, duration 0
\* and the skip message, and the build is failure.
C14_FailFast ==
    sched[1].pc = "idle" =>
        \A b \in BuildIds :
            FailedRuns(b) # {} =>
                LET i == Min({ci_build_steps[k].sequence : k \in FailedRuns(b)})
                    n == Len(pipeline_of(b).steps)
                IN /\ \A j \in (i + 1)..n : SkippedAt(b, j)
                   /\ \A k \in StepsOf(b) :
                         ci_build_steps[k].sequence > i =>
                            ci_build_steps[k].stderr = Some(SkipMessage)
                   /\ ci_builds[b].status = "failure"

\* C15: Admission order.  With one scheduler, a build is moved to running
\* only when no pending build has a smaller id; and with
\* max_concurrent_builds = 1 a build has left pending only when every older
\* build is in a terminal status, so that of two pending builds the older is
\* claimed and the other waits for it to end.
C15_AdmissionOrder ==
    [][ /\ \A b \in BuildIds :
             (ci_builds[b].status = "pending" /\ ci_builds'[b].status = "running") =>
                \A a \in 1..(b - 1) : ci_builds[a].status # "pending"
        /\ config.max_concurrent_builds = 1 =>
             \A b \in BuildIds : \A a \in 1..(b - 1) :
                ci_builds'[b].status # "pending" =>
                   ci_builds'[a].status \in Terminal ]_vars

\* C15 witness: with max_concurrent_builds = 1 the older of two builds has
\* ended and the younger, which waited as pending, is now running.
C15_Witness ==
    /\ config.max_concurrent_builds = 1
    /\ Len(ci_builds) >= 2
    /\ ci_builds[1].status \in Terminal
    /\ ci_builds[2].status = "running"

---------------------------------------------------------------------------
(* Failures and silent skips of Webhook Intake (SpecIntake) *)

\* the Store operation named by the fault of delivery d is attempted while d
\* is handled: the deliveries of FaultDeliveries pass the signature and field
\* checks and name an active project, so that the connection checkout, the
\* project lookup and the duplicate check are always attempted, and the
\* insert is attempted unless the duplicate check found a build
Attempted(d) ==
    LET fp == IF d.event_type = "push"
              THEN push_fingerprint(d.body.after, d.body.ref[2])
              ELSE pr_fingerprint(d.body.head_sha, d.body.head_ref,
                                  d.body.number)
    IN /\ d.fault # "none"
       /\ d.fault = "insert" =>
             ~is_duplicate(ci_builds, fp, config.throttle_window_secs, now)

\* C16: Store failure in intake.  The handling of a push or pull_request
\* delivery during which a Store operation fails (connection checkout,
\* project lookup, duplicate check or build insert) is answered 500 and
\* inserts no build.
C16_StoreFailure ==
    [][ \A d \in FaultDeliveries :
          (Attempted(d) /\ Deliver(d)) =>
             /\ last'.code = 500
             /\ ci_builds' = ci_builds ]_vars

\* the cases of a delivery that is to be skipped: not a push or pull_request,
\* a pull_request action other than opened/synchronize/reopened, an empty
\* SHA or branch, no active project for the repository, or a build of the
\* project with the same fingerprint created within the throttle window
SilentSkip(d) ==
    LET body == d.body
        isPush == d.event_type = "push"
        sha == IF isPush THEN body.after ELSE body.head_sha
        branch == IF isPush
                  THEN (IF body.ref[1] = "refs/heads/" THEN body.ref[2] ELSE "")
                  ELSE body.head_ref
        fp == IF isPush THEN push_fingerprint(sha, branch)
              ELSE pr_fingerprint(sha, branch, body.number)
        projects == {p \in ProjectIds : /\ ci_projects[p].github_repo = body.full_name
                                        /\ ci_projects[p].active}
    IN \/ d.event_type \notin {"push", "pull_request"}
       \/ ~isPush /\ body.action \notin {"opened", "synchronize", "reopened"}
       \/ sha = ""
       \/ branch = ""
       \/ projects = {}
       \/ \E b \in BuildIds :
             /\ ci_builds[b].project_id \in projects
             /\ ci_builds[b].fingerprint = fp
             /\ now - ci_builds[b].create_date < config.throttle_window_secs

---------------------------------------------------------------------------
(* Stored step output (SpecTruncate) *)

\* the bytes of a process output from byte offset index on; an offset inside
\* an e-acute leaves its second byte in front
RECURSIVE bytes_from(_, _)
bytes_from(bytes, index) ==
    IF index = 0 \/ bytes = <<>> THEN bytes
    ELSE LET w == Width(Head(bytes).c)
             total == Head(bytes).n * w
             left == Head(bytes).n - (index \div w)
         IN IF index >= total THEN bytes_from(Tail(bytes), index - total)
            ELSE IF index % w = 0 THEN <<RunOf(Head(bytes).c, left)>> \o Tail(bytes)
            ELSE <<RunOf("0xA9", 1)>>
                 \o (IF left > 1 THEN <<RunOf(Head(bytes).c, left - 1)>> ELSE <<>>)
                 \o Tail(bytes)

\* the stored form of a process output of at least TruncateLimit bytes
StoredAs(bytes, stored) ==
    /\ len(bytes) = TruncateLimit => stored = Some(bytes)
    /\ len(bytes) > TruncateLimit =>
          stored = Some(<<Marker>> \o bytes_from(bytes, len(bytes) - TruncateLimit))

\* C18: Output truncation boundary.  Once the command of a step has exited
\* and the loop has gone on, an output (stdout or stderr) of exactly 65 536
\* bytes is stored unchanged, and one of 65 537 bytes or more is stored as
\* the marker followed by exactly its final 65 536 bytes.
C18_TruncationBoundary ==
    sched[1].pc \in {"finish", "panicked"} =>
        /\ StoredAs(sched[1].output.stdout, ci_build_steps[sched[1].step_id].stdout)
        /\ StoredAs(sched[1].output.stderr, ci_build_steps[sched[1].step_id].stderr)

---------------------------------------------------------------------------
(* Finalization of steps (SpecTwo) *)

\* the stderr stored for a step that ran into the timeout of its pipeline
TimeoutMessage(build_id) ==
    "Step timed out after " \o ToString(pipeline_of(build_id).timeout_secs) \o "s"

\* C19: Timeout outcome.  A step whose command ran into the timeout is
\* finalized as failure with exit_code -1, empty stdout and the stderr
\* "Step timed out after {n}s"; a step whose command exited in time is
\* finalized from its exit code; a finalized step is never running again;
\* and no step of a build in a terminal status is running.
C19_TimeoutOutcome ==
    [][ /\ \A i \in Instances :
             (sched[i].pc = "run" /\ sched'[i].pc \in {"step", "skip", "finish"}) =>
                LET row == ci_build_steps'[sched[i].step_id]
                IN /\ row.status # "running"
                   /\ sched'[i].cmd_result = "timeout" =>
                         /\ row.status = "failure"
                         /\ row.exit_code = Some(-1)
                         /\ row.stdout = Some("")
                         /\ row.stderr = Some(TimeoutMessage(sched[i].build))
                   /\ sched'[i].cmd_result = "exit" =>
                         row.status = IF row.exit_code = Some(0)
                                      THEN "success" ELSE "failure"
        /\ \A k \in 1..Len(ci_build_steps) :
             ci_build_steps[k].status # "running" =>
                ci_build_steps'[k].status # "running"
        /\ \A b \in 1..Len(ci_builds') :
             ci_builds'[b].status \in Terminal =>
                \A k \in 1..Len(ci_build_steps') :
                   ci_build_steps'[k].build_id = b =>
                      ci_build_steps'[k].status # "running" ]_vars

---------------------------------------------------------------------------
(* Normalization of error texts (SpecNormalize) *)

\* C20: Normalization is idempotent.  The normalized text stored with an
\* Error is normalize of its raw text, and normalizing it again gives the
\* same text: normalize(normalize(x)) = normalize(x).
C20_NormalizeIdempotent ==
    \A e \in 1..Len(ci_errors) :
        /\ ci_errors[e].normalized_text = normalize(ci_errors[e].raw_text)
        /\ normalize(ci_errors[e].normalized_text) = ci_errors[e].normalized_text

\* C20 witness: an Error whose raw text "7 /a" had a number and a path
\* replaced is stored.
C20_Witness ==
    \E e \in 1..Len(ci_errors) :
        /\ ci_errors[e].raw_text = <<"7", " ", "/", "a">>
        /\ ci_errors[e].normalized_text = <<"N", " ", "P", "A", "T", "H">>

---------------------------------------------------------------------------
(* The manual trigger (SpecIntake) *)

\* the trigger requests during which no Store operation fails
PlainTriggers == {q \in Triggers : q[2] = "none"}

\* C21: Manual trigger.  A trigger request for an existing project inserts
\* exactly one build, pending, with trigger_event manual, author "manual"
\* and fingerprint "{sha}-{branch}-manual", the branch defaulting to the
\* project's default branch and the commit to HEAD, and is answered 201; a
\* request for a project that does not exist is answered 400 and inserts
\* no build.
C21_ManualTrigger ==
    [][ \/ last'.op # "trigger"
        \/ \A q \in PlainTriggers :
             Trigger({q}, MaxBuilds) =>
                LET req == q[1]
                    n == Len(ci_builds)
                IN IF req.project_id \in {ci_projects[p].id : p \in ProjectIds}
                   THEN LET project == ci_projects[req.project_id]
                            row == ci_builds'[n + 1]
                            branch == IF is_some(req.branch) THEN unwrap(req.branch)
                                      ELSE project.default_branch
                            sha == IF is_some(req.commit_sha)
                                   THEN unwrap(req.commit_sha) ELSE "HEAD"
                        IN /\ last'.code = 201
                           /\ Len(ci_builds') = n + 1
                           /\ SubSeq(ci_builds', 1, n) = ci_builds
                           /\ row.project_id = req.project_id
                           /\ row.status = "pending"
                           /\ row.trigger_event = "manual"
                           /\ row.author = Some("manual")
                           /\ row.branch = branch
                           /\ row.commit_sha = sha
                           /\ row.fingerprint = sha \o "-" \o branch \o "-manual"
                   ELSE /\ last'.code = 400
                        /\ ci_builds' = ci_builds ]_vars

\* C21 witness: a trigger for a project that does not exist was answered
\* 400 after builds were inserted by a trigger with and without branch and
\* commit.
C21_Witness ==
    /\ last = [op |-> "trigger", code |-> 400]
    /\ \E b \in BuildIds : ci_builds[b].fingerprint = "HEAD-main-manual"
    /\ \E b \in BuildIds : ci_builds[b].fingerprint = "c0ffee-main-manual"

---------------------------------------------------------------------------
(* Degraded mode of the signature check (SpecIntake) *)

\* the handling of delivery d by a server whose secret is "s", had d carried
\* the HMAC of its body under "s"
AsSigned(d) ==
    handle_webhook([config EXCEPT !.github_webhook_secret = "s"], ci_builds, now,
                   d.event_type, Signed("s", d.body), d.body, d.fault)

\* C22: Degraded mode.  With an empty secret, in every state a delivery is
\* handled whatever its signature header (absent, not hex, wrong), and the
\* reply and the build inserted are those of the correctly signed delivery:
\* JSON parsing and event dispatch go on as for it.
C22_DegradedMode ==
    config.github_webhook_secret = "" =>
        \A d \in SignatureDeliveries :
            LET r == handle_webhook(config, ci_builds, now, d.event_type,
                                    d.signature, d.body, d.fault)
                ref == AsSigned(d)
            IN /\ r.code # 401
               /\ r.code = ref.code
               /\ r.new = ref.new

\* C22 witness: no secret is configured, a body that is not JSON got past
\* the signature check to the JSON parser (400), and a push has been made a
\* build.
C22_Witness ==
    /\ config.github_webhook_secret = ""
    /\ last = [op |-> "webhook", code |-> 400]
    /\ \E b \in BuildIds : ci_builds[b].trigger_event = "push"

---------------------------------------------------------------------------
(* The status request of Webhook Intake (SpecCallback) *)

\* C23: Status callback is fire-and-forget.  After Webhook Intake inserted
\* a build, the pending status is requested at most once, not at all
\* without a token, and never when no build was inserted; whether the
\* request goes through, gets an error reply or is not answered, the reply
\* of the webhook and the rows of ci_builds are those of the delivery whose
\* request went through: 201 and the one new row.
C23_CallbackFireAndForget ==
    [][ \/ last'.op # "webhook"
        \/ \A d \in CallbackDeliveries :
              Deliver(d) =>
                 LET r == handle_webhook(config, ci_builds, now, d.event_type,
                                         d.signature, d.body, d.fault)
                     plain == handle_webhook(config, ci_builds, now, d.event_type,
                                             d.signature, d.body, "none")
                 IN /\ r.posts <= 1
                    /\ r.posts = 1 => is_some(r.new) /\ config.github_token # ""
                    /\ last'.code = plain.code
                    /\ is_some(plain.new) =>
                          /\ last'.code = 201
                          /\ ci_builds' = create_build(ci_builds, unwrap(plain.new), now)
                    /\ plain.new = None => ci_builds' = ci_builds ]_vars

\* C23 witness: with a forge token configured, deliveries were answered 201
\* and made a push build and a pull-request build.
C23_Witness ==
    /\ config.github_token # ""
    /\ last = [op |-> "webhook", code |-> 201]
    /\ \E b \in BuildIds : ci_builds[b].trigger_event = "push"
    /\ \E b \in BuildIds : ci_builds[b].trigger_event = "pull_request"

---------------------------------------------------------------------------
(* Order and sequence of the steps of a build (Spec) *)

\* C24: Fail-fast ordering invariant.  In every state, for every build,
\* every step that is running or success has a smaller sequence number than
\* every step that is failure.
C24_FailFastOrdering ==
    \A b \in BuildIds :
        \A k1 \in StepsOf(b) : \A k2 \in StepsOf(b) :
            ( /\ ci_build_steps[k1].status \in {"running", "success"}
              /\ ci_build_steps[k2].status = "failure" )
            => ci_build_steps[k1].sequence < ci_build_steps[k2].sequence

\* C25: Sequential steps.  In every state at most one step of a build is
\* running, and the row of the step at position i+1 is inserted only when
\* the step at position i of the build has been finalized.
C25_SequentialSteps ==
    [][ /\ \A b \in 1..Len(ci_builds') :
             Cardinality({k \in 1..Len(ci_build_steps') :
                             /\ ci_build_steps'[k].build_id = b
                             /\ ci_build_steps'[k].status = "running"}) <= 1
        /\ Len(ci_build_steps') > Len(ci_build_steps) =>
             LET row == ci_build_steps'[Len(ci_build_steps')]
             IN row.sequence > 1 =>
                   /\ \E k \in StepsOf(row.build_id) :
                         /\ ci_build_steps[k].sequence = row.sequence - 1
                         /\ ci_build_steps[k].status # "running"
                   /\ \A k \in StepsOf(row.build_id) :
                         ci_build_steps[k].status # "running" ]_vars

---------------------------------------------------------------------------
(* Termination of builds (SpecLive) *)

\* C26: Every admitted build terminates.  With the scheduler loop running
\* for ever and every command exiting or running into its timeout, every
\* build that is running is eventually success or failure, whether or not
\* a Store write failed on the way.
C26_BuildsTerminate ==
    \A b \in 1..MaxBuilds :
        (Len(ci_builds) >= b /\ ci_builds[b].status = "running")
            ~> (Len(ci_builds) >= b /\ ci_builds[b].status \in {"success", "failure"})

---------------------------------------------------------------------------
(* Workspace acquisition (Spec) *)

\* C27: Fatal workspace failure.  When the workspace of a build without
\* local_path cannot be acquired (the directory cannot be created, git
\* clone fails or cannot be launched), the loop goes on to finalize the
\* build as failure with the cause as its error, and the finalization
\* stores failure and summary.error; the build has no step rows.
C27_WorkspaceFailure ==
    [][ \A i \in {1} :
          LET b == sched[i].build
          IN /\ ( /\ sched[i].pc = "workspace"
                  /\ pipeline_of(b).local_path = None
                  /\ sched'[i].pc \notin {"workspace",
                                          loop_pc(0, Len(pipeline_of(b).steps))} )
                => /\ sched'[i].pc = "finish"
                   /\ sched'[i].final = "failure"
                   /\ is_some(sched'[i].error_msg)
                   /\ StepsOf(b) = {}
             /\ ( /\ sched[i].pc = "finish"
                  /\ is_some(sched[i].error_msg)
                  /\ sched'[i].pc # "finish"
                  /\ ci_builds'[b] # ci_builds[b] )
                => /\ ci_builds'[b].status = "failure"
                   /\ ci_builds'[b].summary = Some([error |-> unwrap(sched[i].error_msg)])
                   /\ \A k \in 1..Len(ci_build_steps') :
                         ci_build_steps'[k].build_id # b ]_vars

---------------------------------------------------------------------------
(* Error extraction (SpecLive) *)

\* build b has ended failure with a step whose command did not exit 0
FailedByStep(b) ==
    /\ Len(ci_builds) >= b
    /\ ci_builds[b].status = "failure"
    /\ FailedRuns(b) # {}

\* an occurrence references build b and one of its failing steps, and its
\* Error has been counted
ErrorRecorded(b) ==
    /\ Len(ci_builds) >= b
    /\ \E o \in 1..Len(ci_error_occurrences) :
          /\ ci_error_occurrences[o].build_id = b
          /\ \E k \in FailedRuns(b) :
                ci_error_occurrences[o].step_name = ci_build_steps[k].name
          /\ \E e \in 1..Len(ci_errors) :
                /\ ci_errors[e].id = ci_error_occurrences[o].error_id
                /\ ci_errors[e].occurrence_count >= 1

\* C28: Error extraction.  For every build that ends failure because the
\* command of a step exited non-zero or timed out, eventually an
\* Error-Occurrence references the build and the step and its Error has
\* been counted.
C28_ErrorExtraction ==
    \A b \in 1..MaxBuilds : FailedByStep(b) ~> ErrorRecorded(b)

---------------------------------------------------------------------------
(* Atomicity of record_error (SpecErr) *)

\* ci_errors as it was when the call of caller c, now about to insert its
\* occurrence, began: without the row the call inserted, or with the row it
\* incremented as the call read it
BeforeCall(c) ==
    IF is_some(rec[c].existing)
    THEN [ci_errors EXCEPT ![unwrap(rec[c].existing).id] = unwrap(rec[c].existing)]
    ELSE SubSeq(ci_errors, 1, Len(ci_errors) - 1)

\* C29: Atomic upsert-with-occurrence.  The change of the Error row and the
\* insert of the occurrence take effect together or not at all: when the
\* occurrence insert of a call fails, ci_errors is left as it was before the
\* call, and when it succeeds the occurrence_count of the Error is the
\* number of its occurrences.
C29_AtomicUpsert ==
    [][ (rec[1].pc = "occurrence" /\ rec'[1].pc = "idle") =>
           IF rec'[1].reply = "err"
           THEN /\ ci_errors' = BeforeCall(1)
                /\ ci_error_occurrences' = ci_error_occurrences
           ELSE /\ Len(ci_error_occurrences') = Len(ci_error_occurrences) + 1
                /\ ci_errors'[rec[1].error_id].occurrence_count =
                      Cardinality({o \in 1..Len(ci_error_occurrences') :
                          ci_error_occurrences'[o].error_id = rec[1].error_id}) ]_vars

---------------------------------------------------------------------------
(* Digits in normalized texts (SpecNormalize) *)

\* the text with every maximal run of decimal digits, from position i on,
\* replaced by one N
RECURSIVE DigitRunsReplaced(_, _)
DigitRunsReplaced(text, i) ==
    IF i > Len(text) THEN <<>>
    ELSE IF IsDigit(text[i])
         THEN <<"N">> \o DigitRunsReplaced(text, RunEnd(text, i, Digits) + 1)
         ELSE <<text[i]>> \o DigitRunsReplaced(text, i + 1)

\* C30: Digit normalization.  The normalized text of an Error contains no
\* decimal digit, and it is the normalized text of the raw text with every
\* maximal run of digits, standing alone or next to letters or underscores,
\* replaced by N: raw texts that differ only in such digits normalize alike.
C30_DigitNormalization ==
    \A e \in 1..Len(ci_errors) :
        LET raw == ci_errors[e].raw_text
            normalized == ci_errors[e].normalized_text
        IN /\ normalized = normalize(raw)
           /\ \A k \in 1..Len(normalized) : ~IsDigit(normalized[k])
           /\ normalized = normalize(DigitRunsReplaced(raw, 1))

---------------------------------------------------------------------------
(* record_error called once with each text of up to MaxWords pieces, the    *)
(* pieces being the keywords of the categories in upper, lower and mixed    *)
(* case and two texts that hold no keyword                                  *)

Pieces ==
    {<<"C", "o", "m", "p", "i", "l", "e">>,
     <<"c", "a", "n", "n", "o", "t", " ", "f", "i", "n", "d">>,
     <<"E", "X", "P", "E", "C", "T", "E", "D">>,
     <<"T", "e", "s", "t">>,
     <<"a", "s", "s", "e", "r", "t", "i", "o", "n">>,
     <<"P", "A", "N", "I", "C", "K", "E", "D">>,
     <<"l", "i", "n", "t">>,
     <<"C", "l", "i", "p", "p", "y">>,
     <<"w", "a", "r", "n", "i", "n", "g">>,
     <<"T", "i", "m", "e", "O", "u", "t">>,
     <<"t", "i", "m", "e", "d", " ", "o", "u", "t">>,
     <<"e", "r", "r">>,
     <<"t", "i", "m", "e", "d", "-", "o", "u", "t">>}

\* the pieces of a text are separated by one space
RECURSIVE TextsOfPieces(_)
TextsOfPieces(k) ==
    IF k = 0 THEN {<<>>}
    ELSE TextsOfPieces(k - 1) \cup
         {IF x = <<>> THEN p ELSE x \o <<" ">> \o p :
              x \in TextsOfPieces(k - 1), p \in Pieces}

InitClassify ==
    /\ InitCore(Configs({"s"}, {1}))
    /\ ci_errors = <<>>
    /\ ci_error_occurrences = <<>>
    /\ \E x \in TextsOfPieces(MaxWords) :
          rec = [c \in Callers |->
                    IF c = 1
                    THEN [IdleCall EXCEPT !.pc = "find", !.args = Call(1, x, "t1"),
                                          !.n = 1]
                    ELSE IdleCall]

NextClassify ==
    \/ Trigger(CoreTriggers, MaxBuildsTwo)
    \/ RecordFind(1, {FALSE})
    \/ RecordUpsert(1, {FALSE})
    \/ RecordOccurrence(1, {FALSE})

SpecClassify == InitClassify /\ [][NextClassify]_vars

---------------------------------------------------------------------------
(* Classification of error texts (SpecClassify) *)

\* the categories that have keywords, in the order of the if-else chain
CategoryOrder == <<"compile", "test", "lint", "timeout">>

\* the keywords of the k-th category
Keywords(k) ==
    CASE k = 1 -> {<<"c", "o", "m", "p", "i", "l", "e">>, <<"c", "a", "n", "n", "o", "t", " ", "f", "i", "n", "d">>, <<"e", "x", "p", "e", "c", "t", "e", "d">>}
      [] k = 2 -> {<<"t", "e", "s", "t">>, <<"a", "s", "s", "e", "r", "t", "i", "o", "n">>, <<"p", "a", "n", "i", "c", "k", "e", "d">>}
      [] k = 3 -> {<<"l", "i", "n", "t">>, <<"c", "l", "i", "p", "p", "y">>, <<"w", "a", "r", "n", "i", "n", "g">>}
      [] k = 4 -> {<<"t", "i", "m", "e", "o", "u", "t">>, <<"t", "i", "m", "e", "d", " ", "o", "u", "t">>}

\* two characters that are equal up to the case of a letter
SameIgnoringCase(a, b) ==
    \/ a = b
    \/ \E n \in DOMAIN UpperCase : {a, b} = {UpperCase[n], LowerCase[n]}

\* keyword kw occurs in text at some position, whatever the case of the
\* letters of text
OccursIgnoringCase(text, kw) ==
    \E i \in 1..(Len(text) - Len(kw) + 1) :
        \A j \in 1..Len(kw) : SameIgnoringCase(text[i + j - 1], kw[j])

\* the categories of CategoryOrder one of whose keywords occurs in text
Hits(text) ==
    {k \in DOMAIN CategoryOrder :
        \E kw \in Keywords(k) : OccursIgnoringCase(text, kw)}

\* C31: Category precedence.  The category stored with an Error is the first
\* of compile, test, lint, timeout one of whose keywords occurs in the raw
\* text whatever the case of its letters, and runtime when none occurs; a
\* text with keywords of several categories gets the earliest of them.
C31_CategoryPrecedence ==
    \A e \in 1..Len(ci_errors) :
        LET hits == Hits(ci_errors[e].raw_text)
        IN /\ classify_category(ci_errors[e].raw_text) = ci_errors[e].category
           /\ ci_errors[e].category =
                 IF hits = {} THEN "runtime" ELSE CategoryOrder[Min(hits)]

\* C31 witness: an Error whose raw text "Test EXPECTED" holds a keyword of
\* test before one of compile is stored with category compile.
C31_Witness ==
    \E e \in 1..Len(ci_errors) :
        /\ ci_errors[e].raw_text = <<"T", "e", "s", "t", " ", "E", "X", "P", "E", "C", "T", "E", "D">>
        /\ Hits(ci_errors[e].raw_text) = {1, 2}
        /\ ci_errors[e].category = "compile"

---------------------------------------------------------------------------
(* Query API: read-only projections of ci_builds and ci_build_steps *)

\* StepJson of the steps of a build, ordered by sequence
steps_json(steps, build_id) ==
    LET ids == {k \in 1..Len(steps) : steps[k].build_id = build_id}
        Before(a, b) == \/ steps[a].sequence < steps[b].sequence
                        \/ steps[a].sequence = steps[b].sequence /\ a <= b
        rank(k) == Cardinality({j \in ids : Before(j, k)})
    IN [r \in 1..Cardinality(ids) |->
            LET k == CHOOSE j \in ids : rank(j) = r
            IN [id |-> steps[k].id, name |-> steps[k].name,
                sequence |-> steps[k].sequence, status |-> steps[k].status,
                duration_ms |-> steps[k].duration_ms,
                exit_code |-> steps[k].exit_code]]

\* BuildJson of a row of ci_builds
build_json(builds, steps, b) ==
    [id |-> builds[b].id, project_id |-> builds[b].project_id,
     commit_sha |-> builds[b].commit_sha, branch |-> builds[b].branch,
     pr_number |-> builds[b].pr_number, author |-> builds[b].author,
     status |-> builds[b].status, trigger_event |-> builds[b].trigger_event,
     duration_ms |-> builds[b].duration_ms, create_date |-> builds[b].create_date,
     steps |-> steps_json(steps, b)]

\* api::get_build behind routes::get_build: any error is a 404
get_build(builds, steps, build_id) ==
    IF build_id \in 1..Len(builds)
    THEN [code |-> 200, body |-> <<build_json(builds, steps, build_id)>>]
    ELSE [code |-> 404, body |-> <<>>]

\* api::get_latest_build behind routes::get_latest_build
get_latest_build(builds, steps, project_id, branch) ==
    LET hit == {b \in 1..Len(builds) : /\ builds[b].project_id = project_id
                                       /\ builds[b].branch = branch}
    IN IF hit = {} THEN [code |-> 404, body |-> <<>>]
       ELSE [code |-> 200, body |-> <<build_json(builds, steps, Max(hit))>>]

\* api::list_builds behind routes::list_builds_handler: newest first
list_builds(builds, steps, limit) ==
    LET n == IF limit < Len(builds) THEN (IF limit < 0 THEN 0 ELSE limit)
             ELSE Len(builds)
    IN [code |-> 200,
        body |-> [k \in 1..n |-> build_json(builds, steps, Len(builds) + 1 - k)]]

\* kpi::query_success_rate; days is at least one, beyond the clock of the
\* model.  rate is kept as the pair of its numerator and denominator
query_success_rate(builds) ==
    LET done == {b \in 1..Len(builds) : builds[b].status \in {"success", "failure"}}
        good == {b \in done : builds[b].status = "success"}
    IN [code |-> 200,
        body |-> <<[total |-> Cardinality(done), success |-> Cardinality(good)]>>]

\* kpi::query_avg_duration, the average kept as sum and count
query_avg_duration(builds) ==
    LET timed == {b \in 1..Len(builds) : is_some(builds[b].duration_ms)}
    IN [code |-> 200, body |-> <<[count |-> Cardinality(timed)]>>]

\* kpi::query_builds_by_status: the counts per status (order not kept)
query_builds_by_status(builds) ==
    LET statuses == {builds[b].status : b \in 1..Len(builds)}
    IN [code |-> 200,
        body |-> <<[s \in statuses |->
                      Cardinality({b \in 1..Len(builds) : builds[b].status = s})]>>]

\* the read requests made of the Query API
Queries ==
    [op : {"get_build"}, id : 1..(MaxBuildsTwo + 1), project_id : {0}, branch : {""}]
    \cup [op : {"get_latest_build"}, id : {0}, project_id : {1, 2},
          branch : {"main", "dev"}]
    \cup [op : {"list_builds"}, id : {1, 20}, project_id : {0}, branch : {""}]
    \cup [op : {"success_rate", "avg_duration", "builds_by_status"}, id : {0},
          project_id : {0}, branch : {""}]

\* the reply to a read request; the pool or a statement failing gives the
\* error code of its handler
reply_of(q, failing) ==
    LET r == CASE q.op = "get_build" -> get_build(ci_builds, ci_build_steps, q.id)
               [] q.op = "get_latest_build" ->
                      get_latest_build(ci_builds, ci_build_steps, q.project_id, q.branch)
               [] q.op = "list_builds" -> list_builds(ci_builds, ci_build_steps, q.id)
               [] q.op = "success_rate" -> query_success_rate(ci_builds)
               [] q.op = "avg_duration" -> query_avg_duration(ci_builds)
               [] q.op = "builds_by_status" -> query_builds_by_status(ci_builds)
    IN IF failing = "pool" THEN 500
       ELSE IF failing = "statement"
       THEN (IF q.op \in {"get_build", "get_latest_build"} THEN 404 ELSE 500)
       ELSE r.code

\* a GET of the Query API, handled to its reply
Query ==
    /\ \E q \in Queries, failing \in {"none", "pool", "statement"} :
          last' = [op |-> q.op, code |-> reply_of(q, failing)]
    /\ UNCHANGED <<errVars, aggregate, intake, workspaces, config, now, ci_builds, ci_build_steps, sched>>

---------------------------------------------------------------------------
(* The server with one executor loop and the Query API, builds being       *)
(* enqueued while ci_builds has fewer than MaxBuildsTwo rows                *)

NextQuery ==
    \/ poll_and_execute(1)
    \/ Len(ci_builds) < MaxBuildsTwo /\ Webhook(CoreDeliveries)
    \/ Trigger(CoreTriggers, MaxBuildsTwo)
    \/ Query

SpecQuery == Init /\ [][NextQuery]_vars

---------------------------------------------------------------------------
(* Mutators of Build rows (SpecQuery) *)

\* the rows of a table before a step are still its first rows after it
RowsKept(before, after) ==
    /\ Len(after) >= Len(before)
    /\ \A k \in 1..Len(before) : after[k] = before[k]

\* the operations of the Query API, as recorded with the last reply
QueryOps == {q.op : q \in Queries}

---------------------------------------------------------------------------
(* Cleanup of workspaces (Spec) *)

\* the build runs in a directory cloned for it under workspace_dir
Cloned(builds, b) ==
    parse_pipeline(ci_projects[builds[b].project_id].pipeline_config).local_path
        = None

\* C33: Workspace cleanup.  Once a build without local_path is terminal and
\* the executor has left it, the deletion of its workspace directory has been
\* asked for, on the normal path and on the clone-failure path; a deletion,
\* failed or not, changes no Build; no deletion is ever asked for the build
\* of a project with local_path.
C33_WorkspaceCleanup ==
    [][ /\ \A b \in 1..Len(ci_builds') :
              ( /\ Cloned(ci_builds', b)
                /\ ci_builds'[b].status \in Terminal
                /\ \A i \in Instances :
                      sched'[i].build = b => sched'[i].pc = "idle" )
              => b \in workspaces'.removed
        /\ workspaces'.removed # workspaces.removed => ci_builds' = ci_builds
        /\ \A b \in 1..Len(ci_builds') :
              ~Cloned(ci_builds', b) => b \notin workspaces'.removed ]_vars

---------------------------------------------------------------------------
(* One executor loop and manual triggers for the projects whose pipeline    *)
(* configuration is absent or incomplete, and for acme/app                  *)

PipelineTriggers ==
    {<<TriggerRequest(p, None, None), "none">> : p \in {1, 3, 4, 5, 6}}

NextPipeline ==
    \/ poll_and_execute(1)
    \/ Trigger(PipelineTriggers, MaxBuildsTwo)

SpecPipeline == Init /\ [][NextPipeline]_vars

---------------------------------------------------------------------------
(* Pipeline defaults (SpecPipeline) *)

\* the pipeline_config of the project of build b
ConfigOf(b) == ci_projects[ci_builds[b].project_id].pipeline_config

\* the configuration has no value for timeout_secs, or one that is not an
\* unsigned number
TimeoutAbsent(cfg) ==
    \/ cfg.timeout_secs = None
    \/ unwrap(cfg.timeout_secs).kind # "number"
    \/ unwrap(cfg.timeout_secs).n < 0

\* the message of a step that timed out, for the timeouts of ci_projects
TimeoutTexts ==
    {"Step timed out after " \o ToString(n) \o "s" : n \in {-5, 0, 5, DefaultTimeout}}

\* what the defaults of parse_pipeline come to for build b; when strict, a
\* build whose configuration has no steps list is never failure
PipelineDefaults(b, strict) ==
    LET cfg == ConfigOf(b)
        pipeline == pipeline_of(b)
        rows == StepsOf(b)
        row == ci_builds[b]
    IN /\ cfg = None =>
            /\ Len(pipeline.steps) = 1
            /\ pipeline.steps[1].name = "check"
            /\ Cardinality(rows) <= 1
            /\ \A k \in rows : /\ ci_build_steps[k].name = "check"
                               /\ ci_build_steps[k].sequence = 1
            /\ (row.status \in Terminal /\ row.summary = None) =>
                  Cardinality(rows) = 1
       /\ (cfg # None /\ unwrap(cfg).steps = None) =>
            /\ pipeline.steps = <<>>
            /\ rows = {}
            /\ row.status \in {"pending", "running", "success", "failure"}
            /\ row.status = "failure" => (~strict /\ row.summary # None)
       /\ (cfg = None \/ TimeoutAbsent(unwrap(cfg))) =>
            /\ pipeline.timeout_secs = 600
            /\ \A k \in rows :
                  (/\ ci_build_steps[k].stderr # None
                   /\ unwrap(ci_build_steps[k].stderr) \in TimeoutTexts) =>
                     ci_build_steps[k].stderr = Some("Step timed out after 600s")

---------------------------------------------------------------------------
(* Webhook Intake with two deliveries handled at the same time, the         *)
(* duplicate check and the insert of each being separate round trips        *)

ConcurrentDeliveries ==
    {Delivery("push", Signed("s", Push("acme/app")), Push("acme/app"), "none"),
     Delivery("push", Signed("s", Push("acme/web")), Push("acme/web"), "none"),
     Delivery("push", EmptyHeader, Push("acme/app"), "none"),
     Delivery("pull_request", Signed("s", PullRequest("acme/app", "opened")),
              PullRequest("acme/app", "opened"), "none")}

InitIntakeConc == InitCore(Configs({"s"}, {1})) /\ InitErr

NextIntakeConc ==
    \/ IntakeCheck(1, ConcurrentDeliveries)
    \/ IntakeInsert(1)
    \/ IntakeCheck(2, ConcurrentDeliveries)
    \/ IntakeInsert(2)
    \/ Tick

SpecIntakeConc == InitIntakeConc /\ [][NextIntakeConc]_vars

---------------------------------------------------------------------------
(* Concurrent deliveries (SpecIntakeConc) *)

\* C35: Idempotent intake under concurrency.  When deliveries of the same
\* webhook are handled at the same time, their duplicate checks and inserts
\* interleaved in any order, no two Builds of a webhook with the same dedup
\* fingerprint are created within one throttle window.
C35_ConcurrentIntake ==
    \A a \in BuildIds : \A b \in BuildIds :
        ( /\ a < b
          /\ ci_builds[a].trigger_event \in {"push", "pull_request"}
          /\ ci_builds[a].fingerprint = ci_builds[b].fingerprint )
        => ci_builds[b].create_date - ci_builds[a].create_date
              >= config.throttle_window_secs

---------------------------------------------------------------------------
(* Progress of the queue (SpecLive) *)

\* C36: No starvation of the queue.  Under a fair scheduler loop, every step
\* command exiting or timing out, every Build in pending is eventually
\* claimed: no Build stays running forever and keeps the running count at
\* the cap.
C36_NoStarvation ==
    \A b \in 1..MaxBuilds :
        (Len(ci_builds) >= b /\ ci_builds[b].status = "pending")
            ~> (Len(ci_builds) >= b /\ ci_builds[b].status # "pending")

---------------------------------------------------------------------------
(* Dedup across projects (SpecIntake) *)

\* the deliveries that reach the duplicate check of an active project
ProjectDeliveries ==
    {d \in EventDeliveries :
        /\ d.event_type \in {"push", "pull_request"}
        /\ d.body.json
        /\ find_by_repo(d.body.full_name) # None}

\* the rows of ci_builds that belong to project p
OwnBuilds(builds, p) == SelectSeq(builds, LAMBDA row : row.project_id = p)

\* C37: Dedup isolation between tenants and projects.  Whether a webhook for
\* project P is dropped as a duplicate depends only on the builds of P: the
\* reply and the build to insert are those the handler gives when the Store
\* holds the builds of P alone.
C37_DedupIsolation ==
    \A d \in ProjectDeliveries :
        LET p == unwrap(find_by_repo(d.body.full_name)).id
            r == handle_webhook(config, ci_builds, now, d.event_type,
                                d.signature, d.body, d.fault)
            own == handle_webhook(config, OwnBuilds(ci_builds, p), now,
                                  d.event_type, d.signature, d.body, d.fault)
        IN /\ r.code = own.code
           /\ r.new = own.new

---------------------------------------------------------------------------
(* Inactive projects (SpecIntake) *)

\* the project of build b is active
ActiveProject(b) == ci_projects[ci_builds[b].project_id].active

\* C38: Only active projects get builds.  No Build exists for a project whose
\* active flag is false, created by Webhook Intake or by the manual trigger,
\* and no Build of such a project is running.
C38_ActiveProjectsOnly ==
    \A b \in BuildIds :
        /\ ActiveProject(b)
        /\ ci_builds[b].status = "running" => ActiveProject(b)

---------------------------------------------------------------------------
(* The manual trigger and the throttle (SpecIntake) *)

\* the requests for a project that exists, no Store operation failing
FoundTriggers == {q \in PlainTriggers : q[1].project_id \in ProjectIds}

\* the rows of ci_builds that were not created by the manual trigger
WithoutManual(builds) == SelectSeq(builds, LAMBDA row : row.trigger_event # "manual")

\* C39: Manual triggers bypass the throttle.  A manual trigger for a project
\* that exists inserts a new pending Build and is answered 201 whatever
\* Builds with the same fingerprint exist within the throttle window; and the
\* reply to a push or pull_request webhook, and the build it inserts, are
\* those the handler gives without the manual Builds in the Store.
C39_ManualBypassesThrottle ==
    /\ [](\A d \in ProjectDeliveries :
             LET r == handle_webhook(config, ci_builds, now, d.event_type,
                                     d.signature, d.body, d.fault)
                 w == handle_webhook(config, WithoutManual(ci_builds), now,
                                     d.event_type, d.signature, d.body, d.fault)
             IN r.code = w.code /\ r.new = w.new)
    /\ [][ \/ last'.op # "trigger"
           \/ \A q \in FoundTriggers :
                Trigger({q}, MaxBuilds) =>
                   /\ last'.code = 201
                   /\ Len(ci_builds') = Len(ci_builds) + 1
                   /\ ci_builds'[Len(ci_builds')].status = "pending"
                   /\ ci_builds'[Len(ci_builds')].trigger_event = "manual" ]_vars

\* C39 witness: two Builds of the same manual fingerprint created at the same
\* time, the second by the last request, and a push for that commit and
\* branch is still not a duplicate.
C39_Witness ==
    /\ last = [op |-> "trigger", code |-> 201]
    /\ \E a \in BuildIds : \E b \in BuildIds :
          /\ a < b
          /\ b = Len(ci_builds)
          /\ ci_builds[a].fingerprint = "c0ffee-main-manual"
          /\ ci_builds[b].fingerprint = "c0ffee-main-manual"
          /\ ci_builds[a].create_date = ci_builds[b].create_date
    /\ handle_webhook(config, ci_builds, now, "push", Signed("s", Push("acme/app")),
                      Push("acme/app"), "none").code = 201
    /\ config.github_webhook_secret = "s"

---------------------------------------------------------------------------
(* A CiBuildAggregate fed every stream of up to MaxEvents events *)

NextAggregate == Apply(CiBuildEvent)

SpecAggregate == Init /\ [][NextAggregate]_vars

---------------------------------------------------------------------------
(* The build aggregate (SpecAggregate) *)

\* C40: Build aggregate consistency.  Whatever events are applied to a
\* CiBuildAggregate, finished is true exactly when status is success,
\* failure or cancelled, and once finished is true no event changes status.
C40_AggregateConsistent ==
    [][ /\ aggregate'.state.finished <=> aggregate'.state.status \in Terminal
        /\ aggregate.state.finished =>
              aggregate'.state.status = aggregate.state.status ]_vars

====
